---- MODULE Spec2Model ----
(***************************************************************************)
(* Fireflies -> DealCloud reconciliation engine.                           *)
(*                                                                         *)
(* State machine of services/dealcloud_client.py (token lifecycle, query   *)
(* cache, entity operations with 429 replay) and services/sync_service.py  *)
(* (per-transcript pipeline, sync_all, sync_transcript).                   *)
(*                                                                         *)
(* Conventions                                                             *)
(*   - a Python str is a sequence of one-character strings;                *)
(*   - Optional[x] is a sequence of length 0 (None) or 1;                  *)
(*   - an entry id is a positive integer, NoId (0) stands for None;        *)
(*   - interaction notes are a sequence of text tokens, and the substring  *)
(*     test `marker in notes` is decided token by token (TokenContains);   *)
(*   - a client operation is an operator from a world record (client       *)
(*     fields, clock, CRM store, pending HTTP responses, request log) to   *)
(*     [w |-> world after, ret |-> value, exc |-> raised exception];       *)
(*   - With([x \in {v} |-> e]) is the value of e where x is v: it binds   *)
(*     the result of one statement for the statements that follow.         *)
(***************************************************************************)
EXTENDS Integers, Sequences, FiniteSets, TLC

VARIABLES
    access_token,      \* DealCloudClient._access_token        (Optional[str])
    token_expires_at,  \* DealCloudClient._token_expires_at    (Optional[int], seconds)
    cache,             \* DealCloudClient._cache, one map per key prefix
    now,               \* wall clock, seconds
    crm,               \* the CRM store: contacts and interactions
    ready,             \* transcript ids whose summary the source has produced
    runs,              \* number of operations started so far
    last               \* observation of the most recent operation

vars == <<access_token, token_expires_at, cache, now, crm, ready, runs, last>>

----------------------------------------------------------------------------
(* Bounds of the model *)

MaxRuns == 1          \* runs in one behaviour, against a CRM that may fail
MaxCalmRuns == 2      \* runs in one behaviour, against a CRM that answers normally
MaxCalls == 2         \* calls in one behaviour of the client alone
MaxNow == 4500        \* the clock stops advancing here
MaxReplay == 5        \* consecutive 429 answers the CRM gives to one operation
MaxFaultAt == 4       \* the latest request of an operation that is given a fault
MaxTokenCalls == 3       \* calls of _get_access_token in one behaviour
MaxTriggers == 2         \* triggers that arrive at the application

(* Program constants *)

HARD_CEILING == 500          \* min(limit, 500)
BACKFILL_DEFAULT == 100      \* request.args.get("limit", type=int) or 100
REFRESH_MARGIN == 300        \* timedelta(minutes=5)
DEFAULT_EXPIRES_IN == 3600   \* data.get("expires_in", 3600)
DEFAULT_RETRY_AFTER == 3     \* response.headers.get("Retry-After", 3)
MAX_RETRIES == 3             \* config.MAX_RETRIES
TRANSCRIPT_LIMIT == 2        \* config.TRANSCRIPT_LIMIT, as the environment sets it

NoId == 0

\* With([x \in {v} |-> e]): the value of e where x is v, v evaluated once
With(f) == CHOOSE y \in {f[a] : a \in DOMAIN f} : TRUE

----------------------------------------------------------------------------
(* Strings *)

\* the characters of the model, in code-point order
Alphabet ==
    <<" ", "-", ".", "/", "0", "1", "2", "3", "4", "5", "6", "7", "8", "9", ":", "<",
      ">", "@", "A", "B", "C", "D", "E", "F", "G", "H", "I", "J", "K", "L", "M", "N",
      "O", "P", "Q", "R", "S", "T", "U", "V", "W", "X", "Y", "Z", "_", "a", "b", "c",
      "d", "e", "f", "g", "h", "i", "j", "k", "l", "m", "n", "o", "p", "q", "r", "s",
      "t", "u", "v", "w", "x", "y", "z">>

Ord(c) == CHOOSE i \in 1..Len(Alphabet) : Alphabet[i] = c

UpperSeq ==
    <<"A", "B", "C", "D", "E", "F", "G", "H", "I", "J", "K", "L", "M", "N", "O", "P",
      "Q", "R", "S", "T", "U", "V", "W", "X", "Y", "Z">>
LowerSeq ==
    <<"a", "b", "c", "d", "e", "f", "g", "h", "i", "j", "k", "l", "m", "n", "o", "p",
      "q", "r", "s", "t", "u", "v", "w", "x", "y", "z">>
DigitChars == {"0", "1", "2", "3", "4", "5", "6", "7", "8", "9"}
UpperChars == {UpperSeq[i] : i \in 1..Len(UpperSeq)}
LowerChars == {LowerSeq[i] : i \in 1..Len(LowerSeq)}
SeparatorChars == {"-", ":", "/", "<", ">"}
SpaceChars == {" "}
\* [a-zA-Z0-9] and \w
AlnumChars == UpperChars \cup LowerChars \cup DigitChars
WordChars == AlnumChars \cup {"_"}

LowerChar(c) ==
    IF c \in UpperChars THEN LowerSeq[CHOOSE i \in 1..Len(UpperSeq) : UpperSeq[i] = c] ELSE c

\* str.lower()
Lower(s) == [i \in 1..Len(s) |-> LowerChar(s[i])]

\* s < t for Python strings (lexicographic by code point)
RECURSIVE StrLess(_, _)
StrLess(s, t) ==
    IF t = <<>> THEN FALSE
    ELSE IF s = <<>> THEN TRUE
    ELSE IF s[1] = t[1] THEN StrLess(Tail(s), Tail(t))
    ELSE Ord(s[1]) < Ord(t[1])

\* index of the first occurrence of character c in s, 0 when absent
IndexOf(s, c) ==
    IF \E i \in 1..Len(s) : s[i] = c
    THEN CHOOSE i \in 1..Len(s) : s[i] = c /\ \A j \in 1..(i - 1) : s[j] # c
    ELSE 0

\* sorted(list of str)
RECURSIVE Insert(_, _)
Insert(x, xs) ==
    IF xs = <<>> THEN <<x>>
    ELSE IF StrLess(xs[1], x) THEN <<xs[1]>> \o Insert(x, Tail(xs))
    ELSE <<x>> \o xs

RECURSIVE Sorted(_)
Sorted(xs) == IF xs = <<>> THEN <<>> ELSE Insert(xs[1], Sorted(Tail(xs)))

Reverse(xs) == [i \in 1..Len(xs) |-> xs[Len(xs) + 1 - i]]

RECURSIVE Filter(_, _)
Filter(xs, keep) ==
    IF xs = <<>> THEN <<>>
    ELSE (IF xs[1] \in keep THEN <<xs[1]>> ELSE <<>>) \o Filter(Tail(xs), keep)

Range(xs) == {xs[i] : i \in 1..Len(xs)}

\* a list holding each element of a set once, ascending
RECURSIVE SetToSorted(_)
SetToSorted(S) ==
    IF S = {} THEN <<>>
    ELSE LET x == CHOOSE y \in S : \A z \in S : z = y \/ StrLess(y, z)
         IN <<x>> \o SetToSorted(S \ {x})

----------------------------------------------------------------------------
(* Python values *)

None == <<>>
Some(x) == <<x>>

\* truthiness of an Optional[str]: None and "" are falsy
Truthy(x) == x # None /\ x[1] # ""

NoExc == <<>>
Raise(type, msg) == <<[type |-> type, msg |-> msg]>>
IsRequestException(e) == e # NoExc /\ e[1].type = "RequestException"

\* a cache map is a set of [key, val, run] entries with distinct keys; run is
\* the number of the operation that stored the entry (observation only)
Has(m, k) == \E e \in m : e.key = k
Get(m, k) == (CHOOSE e \in m : e.key = k).val
StoredBy(m, k) == (CHOOSE e \in m : e.key = k).run
Put(m, k, v, run) == {e \in m : e.key # k} \cup {[key |-> k, val |-> v, run |-> run]}

EmptyCache == [contacts |-> {}, interaction |-> {}, deals_company |-> {}, deals_name |-> {}]

----------------------------------------------------------------------------
(* The request log: one entry per inter-call delay and per HTTP request *)

Req(op) ==
    [op |-> op, emails |-> <<>>, subject |-> <<>>, name |-> <<>>, company |-> NoId,
     contacts |-> <<>>, deals |-> <<>>, notes |-> <<>>, resp |-> "", sends |-> 0,
     map |-> "", stored |-> 0, granted |-> <<>>, expires_in |-> <<>>]

\* self._cache[cache_key] = val
CacheStore(w, map, key, val) == [w EXCEPT !.cache[map] = Put(@, key, val, w.run)]

\* return self._cache[cache_key]
CacheHit(w, map, key) ==
    [w |-> [w EXCEPT !.log = Append(@, [Req("cache_hit") EXCEPT
                                          !.map = map, !.stored = StoredBy(w.cache[map], key)])],
     ret |-> Get(w.cache[map], key), exc |-> <<>>]

\* responses of the CRM's token endpoint: "ok", "status", "e5xx", "transport"
DefaultTokenResponse ==
    [kind |-> "ok", access_token |-> Some("tokA"), expires_in |-> None, took |-> 0]

\* responses of the CRM's data endpoints:
\* "ok", "e429", "e429h", "status", "e5xx", "transport", "rejected"
RETRY_AFTER_HEADER == 7     \* a Retry-After header the CRM sends with "e429h"

NextTokenResponse(w) == IF w.tokResp = <<>> THEN DefaultTokenResponse ELSE Head(w.tokResp)
NextDataResponse(w) == IF w.dataResp = <<>> THEN "ok" ELSE Head(w.dataResp)
PopToken(w) == IF w.tokResp = <<>> THEN <<>> ELSE Tail(w.tokResp)
PopData(w) == IF w.dataResp = <<>> THEN <<>> ELSE Tail(w.dataResp)

\* the session's Retry adapter re-sends on 500/502/503/504 up to MAX_RETRIES
\* times and then raises RetryError (a RequestException)
Sends(kind) == IF kind = "e5xx" THEN 1 + MAX_RETRIES ELSE 1

\* the clock of the model stops at MaxNow
Clock(t) == IF t > MaxNow THEN MaxNow ELSE t

----------------------------------------------------------------------------
(* DealCloudClient: token management *)

\* time.sleep(self.rate_limit_delay): a fraction of a second
_delay(w) == [w EXCEPT !.log = Append(@, Req("delay"))]

\* the validity test without the five-minute margin
TokenValidNoMargin(w) ==
    /\ Truthy(w.tok)
    /\ w.exp # None
    /\ w.now < w.exp[1]

\* if self._access_token and self._token_expires_at:
\*     if datetime.now() < self._token_expires_at - timedelta(minutes=5):
TokenValid(w) ==
    /\ Truthy(w.tok)
    /\ w.exp # None
    /\ w.now < w.exp[1] - REFRESH_MARGIN

ExpiresIn(r) == IF r.expires_in = None THEN DEFAULT_EXPIRES_IN ELSE r.expires_in[1]

\* the token request: consumes the CRM's next answer and logs the request
Exchange(w) ==
    With([r \in {NextTokenResponse(w)} |->
        [r |-> r,
         w |-> [w EXCEPT !.tokResp = PopToken(w),
                         !.now = Clock(@ + r.took),
                         !.log = Append(@, [Req("token") EXCEPT
                                              !.resp = r.kind, !.sends = Sends(r.kind),
                                              !.granted = r.access_token,
                                              !.expires_in = r.expires_in])]]])

\* a failed exchange returns what the client holds
GetAccessTokenKeepsOld(w) ==
    IF TokenValid(w)
    THEN [w |-> w, ret |-> w.tok, exc |-> NoExc]
    ELSE
      With([x \in {Exchange(w)} |->
        CASE x.r.kind \in {"transport", "e5xx", "status"} ->
               [w |-> x.w, ret |-> w.tok, exc |-> NoExc]
          [] OTHER ->
               With([w2 \in {[x.w EXCEPT !.tok = x.r.access_token,
                               !.exp = Some(x.w.now + ExpiresIn(x.r))]} |->
                 IF ~Truthy(w2.tok)
                 THEN [w |-> w2, ret |-> None,
                       exc |-> Raise("Exception", "No access token in response")]
                 ELSE [w |-> w2, ret |-> w2.tok, exc |-> NoExc]])])

_get_access_token(w) ==
    IF TokenValid(w)
    THEN [w |-> w, ret |-> w.tok, exc |-> NoExc]
    ELSE
      With([x \in {Exchange(w)} |->
        CASE x.r.kind \in {"transport", "e5xx"} ->
               [w |-> x.w, ret |-> None, exc |-> Raise("RequestException", "connection error")]
          [] x.r.kind = "status" ->
               [w |-> x.w, ret |-> None, exc |-> Raise("Exception", "Auth failed")]
          [] OTHER ->
               With([w2 \in {[x.w EXCEPT !.tok = x.r.access_token,
                               !.exp = Some(x.w.now + ExpiresIn(x.r))]} |->
                 IF ~Truthy(w2.tok)
                 THEN [w |-> w2, ret |-> None,
                       exc |-> Raise("Exception", "No access token in response")]
                 ELSE [w |-> w2, ret |-> w2.tok, exc |-> NoExc]])])

_get_headers(w) == _get_access_token(w)

\* the 429 is replayed without waiting
HandleRateLimitNoWait(w, kind) ==
    [w |-> w, retry |-> kind \in {"e429", "e429h"}]

\* _handle_rate_limit: sleep Retry-After seconds on 429
_handle_rate_limit(w, kind) ==
    IF kind = "e429" THEN [w |-> [w EXCEPT !.now = Clock(@ + DEFAULT_RETRY_AFTER)], retry |-> TRUE]
    ELSE IF kind = "e429h" THEN [w |-> [w EXCEPT !.now = Clock(@ + RETRY_AFTER_HEADER)], retry |-> TRUE]
    ELSE [w |-> w, retry |-> FALSE]

clear_cache(w) == [w EXCEPT !.cache = EmptyCache]

\* one HTTP data request: consumes the CRM's next answer and logs the request
Send(w, req) ==
    With([kind \in {NextDataResponse(w)} |->
        [w |-> [w EXCEPT !.dataResp = PopData(w),
                         !.log = Append(@, [req EXCEPT !.resp = kind, !.sends = Sends(kind)])],
         kind |-> kind]])

----------------------------------------------------------------------------
(* Configuration and the data of the two services *)

\* config.INTERNAL_DOMAINS, as configured for the model
INTERNAL_DOMAINS == {<<"v">>}

AmyEmail == <<"a", "@", "e">>
AmyCaps == <<"A", "@", "e">>
BobEmail == <<"b", "@", "e">>
JoeEmail == <<"j", "@", "v">>
RoomName == <<"R", "o", "o", "m">>
CalEmail == <<"c", "@", "e">>
CalCaps == <<"C", "@", "e">>

CompanyA == 10      \* the company of contact Amy (an intermediary)
CompanyB == 20      \* the company of the deal "Project Jo"

TitleProject == <<"P", "r", "o", "j", "e", "c", "t", " ", "J", "o", " ", "-", " ", "Q">>
TitleHoney == <<"H", "o", "n", "e", "y", ":", " ", "Q">>
TitleWeekly == <<"W", "e", "e", "k", "l", "y", " ", "S", "y", "n", "c">>

\* summary object of the transcript source
FullSummary ==
    [overview |-> "ov", shorthand_bullet |-> "sb", outline |-> "ol",
     action_items |-> <<"do">>, keywords |-> <<"kw">>]

\* the transcripts of the source, most recent first
Transcripts ==
    << [id |-> "t1", title |-> TitleProject, date |-> "d1", duration |-> "60",
        participants |-> <<AmyEmail, JoeEmail>>],
       [id |-> "t2", title |-> TitleProject, date |-> "d2", duration |-> "60",
        participants |-> <<BobEmail, AmyEmail>>],
       [id |-> "t3", title |-> TitleHoney, date |-> "d3", duration |-> "60",
        participants |-> <<AmyCaps, RoomName>>],
       [id |-> "t4", title |-> TitleWeekly, date |-> "d4", duration |-> "60",
        participants |-> <<JoeEmail, RoomName>>],
       [id |-> "t5", title |-> TitleWeekly, date |-> "d5", duration |-> "60",
        participants |-> <<CalCaps, AmyEmail, CalEmail>>],
       [id |-> "t6", title |-> TitleWeekly, date |-> "d6", duration |-> "60",
        participants |-> <<AmyEmail, BobEmail>>] >>

TranscriptIds == {Transcripts[i].id : i \in 1..Len(Transcripts)}

\* deals are read-only reference data of the CRM
Deals ==
    << [EntryId |-> 7, DealName |-> <<"P", "r", "o", "j", "e", "c", "t", " ", "J", "o">>, Company |-> <<CompanyB>>],
       [EntryId |-> 8, DealName |-> <<"A", "c", "m", "e">>, Company |-> <<CompanyA>>] >>

InitialContacts == << [EntryId |-> 1, Email |-> AmyEmail, Company |-> <<CompanyA>>] >>

FirstContactId == 50       \* ids the CRM gives to created contacts
FirstInteractionId == 100  \* ids the CRM gives to created interactions

\* hay contains needle (substring)
Contains(hay, needle) ==
    \E i \in 0..(Len(hay) - Len(needle)) :
        \A j \in 1..Len(needle) : hay[i + j] = needle[j]

\* CRM query Email $in emails (the CRM collates case-insensitively)
CrmContactsByEmail(store, emails) ==
    LET wanted == {Lower(emails[i]) : i \in 1..Len(emails)}
        hit == {i \in 1..Len(store.contacts) : Lower(store.contacts[i].Email) \in wanted}
    IN  Filter(store.contacts, {store.contacts[i] : i \in hit})

\* CRM query DealName $contains name
CrmDealsByName(name) ==
    Filter(Deals, {Deals[i] : i \in {j \in 1..Len(Deals) :
                                       Contains(Lower(Deals[j].DealName), Lower(name))}})

\* CRM query Company = company_id
CrmDealsByCompany(company_id) ==
    Filter(Deals, {Deals[i] : i \in {j \in 1..Len(Deals) : company_id \in Range(Deals[j].Company)}})

\* CRM query Subject = subject
CrmInteractionsBySubject(store, subject) ==
    Filter(store.interactions,
           {store.interactions[i] : i \in {j \in 1..Len(store.interactions) :
                                             store.interactions[j].Subject = subject}})

----------------------------------------------------------------------------
(* DealCloudClient: entity operations *)

Ok(w, ret) == [w |-> w, ret |-> ret, exc |-> NoExc]
Raised(w, ret, exc) == [w |-> w, ret |-> ret, exc |-> exc]

\* the cache key of search_contacts_by_email over lower-cased addresses
ContactsKeyLowered(emails) == Sorted([i \in 1..Len(emails) |-> Lower(emails[i])])

\* cache_key = f"contacts:{','.join(sorted(emails))}"
ContactsKey(emails) == Sorted(emails)

\* a failure of the token exchange inside `headers=self._get_headers()` of a
\* search: the except clause of the operation catches RequestException only
AuthFailedInSearch(h, map, key, empty) ==
    IF IsRequestException(h.exc)
    THEN Ok(CacheStore(h.w, map, key, empty), empty)
    ELSE Raised(h.w, empty, h.exc)

\* the same inside a create operation
AuthFailedInCreate(h) ==
    IF IsRequestException(h.exc) THEN Ok(h.w, None) ELSE Raised(h.w, None, h.exc)

RECURSIVE search_contacts_by_email(_, _)
search_contacts_by_email(w, emails) ==
    IF emails = <<>> THEN Ok(w, <<>>)
    ELSE
      With([cache_key \in {ContactsKey(emails)} |->
        IF Has(w.cache.contacts, cache_key)
        THEN CacheHit(w, "contacts", cache_key)
        ELSE
          With([h \in {_get_headers(_delay(w))} |->
            IF h.exc # NoExc
            THEN AuthFailedInSearch(h, "contacts", cache_key, <<>>)
            ELSE
              With([s \in {Send(h.w, [Req("contacts_search") EXCEPT !.emails = emails])} |->
                IF s.kind \in {"transport", "e5xx"}
                THEN Ok(CacheStore(s.w, "contacts", cache_key, <<>>), <<>>)
                ELSE
                  With([rl \in {_handle_rate_limit(s.w, s.kind)} |->
                    IF rl.retry
                    THEN search_contacts_by_email(rl.w, emails)
                    ELSE IF s.kind = "status"
                    THEN Ok(CacheStore(s.w, "contacts", cache_key, <<>>), <<>>)
                    ELSE
                      With([rows \in {CrmContactsByEmail(s.w.crm, emails)} |->
                        Ok(CacheStore(s.w, "contacts", cache_key, rows), rows)])])])])])

\* the company is sent whether or not one is given
CompanyNotRequired(company_id) == FALSE

\* if not company_id:
MissingCompany(company_id) == company_id = NoId

RECURSIVE create_contact(_, _, _)
create_contact(w, email, company_id) ==
    IF MissingCompany(company_id) THEN Ok(w, None)
    ELSE
      With([h \in {_get_headers(_delay(w))} |->
        IF h.exc # NoExc
        THEN AuthFailedInCreate(h)
        ELSE
          With([s \in {Send(h.w, [Req("contact_create") EXCEPT !.emails = <<email>>,
                                                         !.company = company_id])} |->
            IF s.kind \in {"transport", "e5xx"}
            THEN Ok(s.w, None)
            ELSE
              With([rl \in {_handle_rate_limit(s.w, s.kind)} |->
                IF rl.retry
                THEN create_contact(rl.w, email, company_id)
                ELSE IF s.kind \in {"status", "rejected"}
                THEN Ok(s.w, None)
                ELSE
                  With([row \in {[EntryId |-> FirstContactId + Len(s.w.crm.contacts),
                       Email |-> email, Company |-> <<company_id>>]} |->
                    Ok([s.w EXCEPT !.crm.contacts = Append(@, row)], Some(row))])])])])

RECURSIVE search_interaction_by_subject(_, _)
search_interaction_by_subject(w, subject) ==
    IF Has(w.cache.interaction, subject)
    THEN CacheHit(w, "interaction", subject)
    ELSE
      With([h \in {_get_headers(_delay(w))} |->
        IF h.exc # NoExc
        THEN AuthFailedInSearch(h, "interaction", subject, None)
        ELSE
          With([s \in {Send(h.w, [Req("interaction_search") EXCEPT !.subject = subject])} |->
            IF s.kind \in {"transport", "e5xx"}
            THEN Ok(CacheStore(s.w, "interaction", subject, None), None)
            ELSE
              With([rl \in {_handle_rate_limit(s.w, s.kind)} |->
                IF rl.retry
                THEN search_interaction_by_subject(rl.w, subject)
                ELSE IF s.kind = "status"
                THEN Ok(CacheStore(s.w, "interaction", subject, None), None)
                ELSE
                  With([rows \in {CrmInteractionsBySubject(s.w.crm, subject)} |->
                    With([existing \in {IF rows = <<>> THEN None ELSE Some(rows[1])} |->
                      Ok(CacheStore(s.w, "interaction", subject, existing), existing)])])])])])

\* as create_interaction, but a transport failure of the request is raised
RECURSIVE CreateInteractionRaises(_, _, _, _, _, _)
CreateInteractionRaises(w, subject, notes, contact_ids, company_id, deal_ids) ==
    With([h \in {_get_headers(_delay(w))} |->
      IF h.exc # NoExc
      THEN AuthFailedInCreate(h)
      ELSE
        With([s \in {Send(h.w, [Req("interaction_create") EXCEPT
                          !.subject = subject, !.notes = notes,
                          !.contacts = contact_ids, !.company = company_id,
                          !.deals = deal_ids])} |->
          IF s.kind \in {"transport", "e5xx"}
          THEN Raised(s.w, None, Raise("RequestException", "connection error"))
          ELSE
            With([rl \in {_handle_rate_limit(s.w, s.kind)} |->
              IF rl.retry
              THEN CreateInteractionRaises(rl.w, subject, notes, contact_ids, company_id, deal_ids)
              ELSE IF s.kind \in {"status", "rejected"}
              THEN Ok(s.w, None)
              ELSE
                With([entry_id \in {FirstInteractionId + Len(s.w.crm.interactions)} |->
                  Ok([s.w EXCEPT !.crm.interactions =
                          Append(@, [EntryId |-> entry_id, Subject |-> subject, Notes |-> notes])],
                     Some([EntryId |-> entry_id, CompanyId |-> company_id]))])])])])

RECURSIVE create_interaction(_, _, _, _, _, _)
create_interaction(w, subject, notes, contact_ids, company_id, deal_ids) ==
    With([h \in {_get_headers(_delay(w))} |->
      IF h.exc # NoExc
      THEN AuthFailedInCreate(h)
      ELSE
        With([s \in {Send(h.w, [Req("interaction_create") EXCEPT
                          !.subject = subject, !.notes = notes,
                          !.contacts = contact_ids, !.company = company_id,
                          !.deals = deal_ids])} |->
          IF s.kind \in {"transport", "e5xx"}
          THEN Ok(s.w, None)
          ELSE
            With([rl \in {_handle_rate_limit(s.w, s.kind)} |->
              IF rl.retry
              THEN create_interaction(rl.w, subject, notes, contact_ids, company_id, deal_ids)
              ELSE IF s.kind \in {"status", "rejected"}
              THEN Ok(s.w, None)
              ELSE
                With([entry_id \in {FirstInteractionId + Len(s.w.crm.interactions)} |->
                  Ok([s.w EXCEPT !.crm.interactions =
                          Append(@, [EntryId |-> entry_id, Subject |-> subject, Notes |-> notes])],
                     Some([EntryId |-> entry_id, CompanyId |-> company_id]))])])])])

\* sync_service calls dealcloud_client.update_interaction, which the class
\* DealCloudClient does not define: the attribute lookup raises
update_interaction(w, entry_id, notes, contact_ids, company_id, deal_ids) ==
    Raised(w, None,
           Raise("AttributeError", "'DealCloudClient' object has no attribute 'update_interaction'"))

RECURSIVE search_deals_by_company(_, _)
search_deals_by_company(w, company_id) ==
    IF company_id = NoId THEN Ok(w, <<>>)
    ELSE IF Has(w.cache.deals_company, company_id)
    THEN CacheHit(w, "deals_company", company_id)
    ELSE
      With([h \in {_get_headers(_delay(w))} |->
        IF h.exc # NoExc
        THEN AuthFailedInSearch(h, "deals_company", company_id, <<>>)
        ELSE
          With([s \in {Send(h.w, [Req("deals_company") EXCEPT !.company = company_id])} |->
            IF s.kind \in {"transport", "e5xx"}
            THEN Ok(CacheStore(s.w, "deals_company", company_id, <<>>), <<>>)
            ELSE
              With([rl \in {_handle_rate_limit(s.w, s.kind)} |->
                IF rl.retry
                THEN search_deals_by_company(rl.w, company_id)
                ELSE IF s.kind = "status"
                THEN Ok(CacheStore(s.w, "deals_company", company_id, <<>>), <<>>)
                ELSE
                  With([rows \in {CrmDealsByCompany(company_id)} |->
                    Ok(CacheStore(s.w, "deals_company", company_id, rows), rows)])])])])

RECURSIVE search_deals_by_name(_, _)
search_deals_by_name(w, deal_name) ==
    IF deal_name = <<>> THEN Ok(w, <<>>)
    ELSE
      With([cache_key \in {Lower(deal_name)} |->
        IF Has(w.cache.deals_name, cache_key)
        THEN CacheHit(w, "deals_name", cache_key)
        ELSE
          With([h \in {_get_headers(_delay(w))} |->
            IF h.exc # NoExc
            THEN AuthFailedInSearch(h, "deals_name", cache_key, <<>>)
            ELSE
              With([s \in {Send(h.w, [Req("deals_name") EXCEPT !.name = deal_name])} |->
                IF s.kind \in {"transport", "e5xx"}
                THEN Ok(CacheStore(s.w, "deals_name", cache_key, <<>>), <<>>)
                ELSE
                  With([rl \in {_handle_rate_limit(s.w, s.kind)} |->
                    IF rl.retry
                    THEN search_deals_by_name(rl.w, deal_name)
                    ELSE IF s.kind = "status"
                    THEN Ok(CacheStore(s.w, "deals_name", cache_key, <<>>), <<>>)
                    ELSE
                      With([rows \in {CrmDealsByName(deal_name)} |->
                        Ok(CacheStore(s.w, "deals_name", cache_key, rows), rows)])])])])])

----------------------------------------------------------------------------
(* SyncService: pure helpers *)

\* s.split(c)
RECURSIVE Split(_, _)
Split(s, c) ==
    LET i == IndexOf(s, c)
    IN  IF i = 0 THEN <<s>>
        ELSE <<SubSeq(s, 1, i - 1)>> \o Split(SubSeq(s, i + 1, Len(s)), c)

\* no domain is taken for internal
NoInternalDomain(email) == FALSE

is_internal_email(email) ==
    IF email = <<>> \/ "@" \notin Range(email) THEN FALSE
    ELSE Lower(Split(email, "@")[2]) \in INTERNAL_DOMAINS

\* last index k >= i - 1 such that s[i..k] lies in chars (the greedy run from i)
RunEnd(s, i, chars) ==
    CHOOSE k \in (i - 1)..Len(s) :
        /\ \A j \in i..k : s[j] \in chars
        /\ (k = Len(s) \/ s[k + 1] \notin chars)

ProjectWord == <<"p", "r", "o", "j", "e", "c", "t">>

\* (Project\s+\w+) matched at position i, re.IGNORECASE
ProjectMatchAt(title, i) ==
    /\ i + 6 <= Len(title)
    /\ Lower(SubSeq(title, i, i + 6)) = ProjectWord
    /\ LET sp == RunEnd(title, i + 7, SpaceChars)
       IN  sp >= i + 7 /\ RunEnd(title, sp + 1, WordChars) >= sp + 1

ProjectMatchEnd(title, i) ==
    RunEnd(title, RunEnd(title, i + 7, SpaceChars) + 1, WordChars)

skip_words ==
    {<<"c", "a", "l", "l">>,
     <<"m", "e", "e", "t", "i", "n", "g">>,
     <<"d", "i", "s", "c", "u", "s", "s", "i", "o", "n">>,
     <<"t", "o", "u", "c", "h", "b", "a", "s", "e">>,
     <<"c", "a", "t", "c", "h">>,
     <<"i", "n", "t", "e", "r", "n", "a", "l">>,
     <<"w", "e", "e", "k", "l", "y">>,
     <<"d", "a", "i", "l", "y">>,
     <<"s", "y", "n", "c">>,
     <<"u", "p", "d", "a", "t", "e">>,
     <<"r", "e", "v", "i", "e", "w">>,
     <<"v", "a", "l", "e", "s", "c", "o">>,
     <<"t", "e", "a", "m">>}

\* ^([A-Z][a-zA-Z0-9]+(?:\s+[A-Z][a-zA-Z0-9]+)?)\s*[-:/<>]  -> end of group 1, 0 if no match
SeparatorMatchEnd(title) ==
    IF Len(title) < 2 \/ title[1] \notin UpperChars \/ title[2] \notin AlnumChars THEN 0
    ELSE
      LET w1 == RunEnd(title, 2, AlnumChars)
          sp1 == RunEnd(title, w1 + 1, SpaceChars)
          two ==
              /\ sp1 >= w1 + 1
              /\ sp1 + 2 <= Len(title)
              /\ title[sp1 + 1] \in UpperChars
              /\ title[sp1 + 2] \in AlnumChars
              /\ LET w2 == RunEnd(title, sp1 + 2, AlnumChars)
                     sp2 == RunEnd(title, w2 + 1, SpaceChars)
                 IN  sp2 + 1 <= Len(title) /\ title[sp2 + 1] \in SeparatorChars
      IN  IF two THEN RunEnd(title, sp1 + 2, AlnumChars)
          ELSE IF sp1 + 1 <= Len(title) /\ title[sp1 + 1] \in SeparatorChars THEN w1
          ELSE 0

extract_project_name(title) ==
    IF title = <<>> THEN None
    ELSE IF \E i \in 1..Len(title) : ProjectMatchAt(title, i)
    THEN LET i == CHOOSE k \in 1..Len(title) :
                      ProjectMatchAt(title, k) /\ \A j \in 1..(k - 1) : ~ProjectMatchAt(title, j)
         IN  Some(SubSeq(title, i, ProjectMatchEnd(title, i)))
    ELSE LET e == SeparatorMatchEnd(title)
         IN  IF e > 0 /\ Lower(SubSeq(title, 1, e)) \notin skip_words
             THEN Some(SubSeq(title, 1, e))
             ELSE None

\* text tokens: a literal piece of text, or a string of characters
Txt(s) == [s |-> s, c |-> <<>>]
Chr(c) == [s |-> "", c |-> c]

NL == Txt("\n")
NLNL == Txt("\n\n")

content_markers ==
    <<[s |-> "SUMMARY:", c |-> <<"S", "U", "M", "M", "A", "R", "Y", ":">>],
      [s |-> "DETAILED NOTES:", c |-> <<"D", "E", "T", "A", "I", "L", "E", "D", " ", "N", "O", "T", "E", "S", ":">>],
      [s |-> "ACTION ITEMS:", c |-> <<"A", "C", "T", "I", "O", "N", " ", "I", "T", "E", "M", "S", ":">>],
      [s |-> "KEY TOPICS:", c |-> <<"K", "E", "Y", " ", "T", "O", "P", "I", "C", "S", ":">>],
      [s |-> "NOTES:", c |-> <<"N", "O", "T", "E", "S", ":">>],
      [s |-> "OUTLINE:", c |-> <<"O", "U", "T", "L", "I", "N", "E", ":">>]>>

\* marker texts that occur inside another token text
Embedded == {<<"DETAILED NOTES:", "NOTES:">>}

\* `marker in token`
TokenContains(tok, marker) ==
    \/ tok.s = marker.s
    \/ <<tok.s, marker.s>> \in Embedded
    \/ (tok.c # <<>> /\ Contains(tok.c, marker.c))

IsBlank(tok) ==
    /\ tok.s \in {"", " ", "\n", "\n\n"}
    /\ \A i \in 1..Len(tok.c) : tok.c[i] \in SpaceChars

\* only the marker SUMMARY: counts as content
HasIncompleteNotesSummaryOnly(notes) ==
    IF notes = <<>> \/ \A i \in 1..Len(notes) : IsBlank(notes[i]) THEN TRUE
    ELSE ~\E i \in 1..Len(notes) : TokenContains(notes[i], content_markers[1])

_has_incomplete_notes(notes) ==
    IF notes = <<>> \/ \A i \in 1..Len(notes) : IsBlank(notes[i]) THEN TRUE
    ELSE LET has_any_content ==
                 \E m \in 1..Len(content_markers) : \E i \in 1..Len(notes) :
                     TokenContains(notes[i], content_markers[m])
         IN  ~has_any_content

\* sep.join(parts) over token sequences
RECURSIVE Join(_, _)
Join(parts, sep) ==
    IF parts = <<>> THEN <<>>
    ELSE IF Len(parts) = 1 THEN parts[1]
    ELSE parts[1] \o <<sep>> \o Join(Tail(parts), sep)

\* the outline is labeled OUTLINE whether or not there are detailed notes
FormatContentOutlineAlways(summary) ==
    IF summary = None THEN <<>>
    ELSE
      LET sm == summary[1]
          overview == IF sm.overview # "" THEN << <<Txt("SUMMARY:"), NL, Txt(sm.overview)>> >> ELSE <<>>
          keywords ==
              IF sm.keywords # <<>>
              THEN << <<Txt("KEY TOPICS:"), NL>> \o
                      Join([i \in 1..Len(sm.keywords) |-> <<Txt(sm.keywords[i])>>], Txt(", ")) >>
              ELSE <<>>
          shorthand ==
              IF sm.shorthand_bullet # ""
              THEN << <<Txt("DETAILED NOTES:"), NL, Txt(sm.shorthand_bullet)>> >> ELSE <<>>
          outline ==
              IF sm.outline # ""
              THEN << <<Txt("OUTLINE:"), NL, Txt(sm.outline)>> >>
              ELSE <<>>
          action_items ==
              IF sm.action_items # <<>>
              THEN << <<Txt("ACTION ITEMS:"), NL>> \o
                      Join([i \in 1..Len(sm.action_items) |->
                               <<Txt("  (bullet) "), Txt(sm.action_items[i])>>], NL) >>
              ELSE <<>>
          sections == overview \o keywords \o shorthand \o outline \o action_items
      IN  Join(sections, NLNL)

format_content(summary) ==
    IF summary = None THEN <<>>
    ELSE
      LET sm == summary[1]
          overview == IF sm.overview # "" THEN << <<Txt("SUMMARY:"), NL, Txt(sm.overview)>> >> ELSE <<>>
          keywords ==
              IF sm.keywords # <<>>
              THEN << <<Txt("KEY TOPICS:"), NL>> \o
                      Join([i \in 1..Len(sm.keywords) |-> <<Txt(sm.keywords[i])>>], Txt(", ")) >>
              ELSE <<>>
          shorthand ==
              IF sm.shorthand_bullet # ""
              THEN << <<Txt("DETAILED NOTES:"), NL, Txt(sm.shorthand_bullet)>> >> ELSE <<>>
          outline ==
              IF sm.outline # ""
              THEN (IF sm.shorthand_bullet # ""
                    THEN << <<Txt("OUTLINE:"), NL, Txt(sm.outline)>> >>
                    ELSE << <<Txt("NOTES:"), NL, Txt(sm.outline)>> >>)
              ELSE <<>>
          action_items ==
              IF sm.action_items # <<>>
              THEN << <<Txt("ACTION ITEMS:"), NL>> \o
                      Join([i \in 1..Len(sm.action_items) |->
                               <<Txt("  (bullet) "), Txt(sm.action_items[i])>>], NL) >>
              ELSE <<>>
          sections == overview \o keywords \o shorthand \o outline \o action_items
      IN  Join(sections, NLNL)

----------------------------------------------------------------------------
(* SyncService.process_transcript *)

SyncResult(transcript, status) ==
    [transcript_id |-> transcript.id, transcript_title |-> transcript.title,
     status |-> status, reason |-> "", interaction_id |-> NoId, company_id |-> NoId,
     contact_ids |-> <<>>, deal_ids |-> <<>>, created_contacts |-> <<>>, error |-> ""]

\* list(set(xs)): the iteration order of a set of str is not fixed by the language
ListOfSet(w, xs) ==
    IF w.order = "asc" THEN SetToSorted(Range(xs)) ELSE Reverse(SetToSorted(Range(xs)))

\* as ScanContact, but every contact that has a company sets the company
ScanContactLastWins(contact, acc) ==
    With([fresh \in {contact.EntryId # NoId /\ contact.EntryId \notin Range(acc.contact_ids)} |->
        [contact_ids |-> IF fresh THEN Append(acc.contact_ids, contact.EntryId)
                                  ELSE acc.contact_ids,
         found_emails |-> acc.found_emails \cup {Lower(contact.Email)},
         company_id |-> IF fresh /\ contact.Company # <<>>
                        THEN contact.Company[1] ELSE acc.company_id]])

\* one iteration of `for contact in contact_rows`
ScanContact(contact, acc) ==
    With([fresh \in {contact.EntryId # NoId /\ contact.EntryId \notin Range(acc.contact_ids)} |->
        [contact_ids |-> IF fresh THEN Append(acc.contact_ids, contact.EntryId)
                                  ELSE acc.contact_ids,
         found_emails |-> acc.found_emails \cup {Lower(contact.Email)},
         company_id |-> IF fresh /\ acc.company_id = NoId /\ contact.Company # <<>>
                        THEN contact.Company[1] ELSE acc.company_id]])

\* for contact in contact_rows: ...
RECURSIVE ScanContacts(_, _)
ScanContacts(rows, acc) ==
    IF rows = <<>> THEN acc
    ELSE With([next \in {ScanContact(rows[1], acc)} |-> ScanContacts(Tail(rows), next)])

\* a contact that cannot be created ends the pass
RECURSIVE CreateMissingOrFail(_, _, _, _)
CreateMissingOrFail(w, emails, company_id, acc) ==
    IF emails = <<>> THEN [w |-> w, acc |-> acc, exc |-> NoExc]
    ELSE
      With([r \in {create_contact(w, emails[1], company_id)} |->
        IF r.exc # NoExc THEN [w |-> r.w, acc |-> acc, exc |-> r.exc]
        ELSE IF r.ret # None
        THEN With([next \in {[contact_ids |-> Append(acc.contact_ids, r.ret[1].EntryId),
                  created_contacts |-> Append(acc.created_contacts, emails[1])]} |->
               CreateMissingOrFail(r.w, Tail(emails), company_id, next)])
        ELSE [w |-> r.w, acc |-> acc, exc |-> Raise("Exception", "contact not created")]])

\* for email in missing_emails: create_contact(email, company_id)
RECURSIVE CreateMissing(_, _, _, _)
CreateMissing(w, emails, company_id, acc) ==
    IF emails = <<>> THEN [w |-> w, acc |-> acc, exc |-> NoExc]
    ELSE
      With([r \in {create_contact(w, emails[1], company_id)} |->
        IF r.exc # NoExc THEN [w |-> r.w, acc |-> acc, exc |-> r.exc]
        ELSE IF r.ret # None
        THEN With([next \in {[contact_ids |-> Append(acc.contact_ids, r.ret[1].EntryId),
                  created_contacts |-> Append(acc.created_contacts, emails[1])]} |->
               CreateMissing(r.w, Tail(emails), company_id, next)])
        ELSE CreateMissing(r.w, Tail(emails), company_id, acc)])

\* one iteration of `for deal in deal_rows` of the name-based search
ScanDeal(deal, acc) ==
    With([fresh \in {deal.EntryId # NoId /\ deal.EntryId \notin Range(acc.deal_ids)} |->
        [deal_ids |-> IF fresh THEN Append(acc.deal_ids, deal.EntryId) ELSE acc.deal_ids,
         target_company_id |-> IF fresh /\ acc.target_company_id = NoId /\ deal.Company # <<>>
                               THEN deal.Company[1] ELSE acc.target_company_id]])

\* for deal in deal_rows: ...
RECURSIVE ScanDeals(_, _)
ScanDeals(rows, acc) ==
    IF rows = <<>> THEN acc
    ELSE With([next \in {ScanDeal(rows[1], acc)} |-> ScanDeals(Tail(rows), next)])

\* the precedence reversed: the contact's company first
FinalCompanyFromContact(target_company_id, company_id) ==
    IF company_id # NoId THEN company_id ELSE target_company_id

\* final_company_id = target_company_id if target_company_id else company_id
FinalCompany(target_company_id, company_id) ==
    IF target_company_id # NoId THEN target_company_id ELSE company_id

InteractionSubject(title) == <<"C", "a", "l", "l", ":", " ">> \o title

InteractionNotes(transcript, content) ==
    <<Txt("Fireflies Call Recording"), NLNL, Txt("Date: "), Txt(transcript.date), NL,
      Txt("Duration: "), Txt(transcript.duration), Txt(" seconds"), NLNL,
      Txt("Participants:"), NL>>
    \o Join([i \in 1..Len(transcript.participants) |-> <<Chr(transcript.participants[i])>>], NL)
    \o (IF content # <<>> THEN <<NLNL>> \o content ELSE <<>>)

\* what a pass had resolved when it returned (observation only): the company
\* taken from contacts, the company taken from the name-matched deal, whether
\* content was formatted, the exception that ended the pass, whether the pass
\* got to the abort condition, the contact ids and the deal ids it had there,
\* the deal ids of the name-based step, and the interaction the search returned
Obs(company_id, target_company_id, has_content) ==
    [company_id |-> company_id, target_company_id |-> target_company_id,
     has_content |-> has_content, raised |-> NoExc,
     resolved |-> FALSE, contact_ids |-> <<>>, deal_ids |-> <<>>,
     named_deal_ids |-> <<>>, existing |-> None]

\* the observation of a pass that got to the abort condition
Resolved(company_id, named, contact_ids, deal_ids, has_content) ==
    [Obs(company_id, named.target_company_id, has_content) EXCEPT
        !.resolved = TRUE, !.contact_ids = contact_ids, !.deal_ids = deal_ids,
        !.named_deal_ids = named.deal_ids]

\* the fallback made whenever the contacts gave a company
FallbackWheneverCompany(deal_ids, company_id) == company_id # NoId

\* if not deal_ids and company_id:
NeedsCompanyFallback(deal_ids, company_id) == deal_ids = <<>> /\ company_id # NoId

\* the abort condition never met
AlwaysSomethingToLink(final_company_id, contact_ids, deal_ids) == FALSE

\* if not final_company_id and not contact_ids and not deal_ids:
NothingToLink(final_company_id, contact_ids, deal_ids) ==
    final_company_id = NoId /\ contact_ids = <<>> /\ deal_ids = <<>>

Returned(w, result, obs) == [w |-> w, result |-> result, obs |-> obs]

\* except Exception as e: SyncResult(status="error", error=str(e))
Caught(w, transcript, exc, obs) ==
    Returned(w, [SyncResult(transcript, "error") EXCEPT !.error = exc[1].msg],
             [obs EXCEPT !.raised = exc])

\* an existing interaction was found: update it, or skip
Backfill(w, existing, notes, has_new_content, linked, transcript, obs) ==
    With([notes_incomplete \in {_has_incomplete_notes(existing.Notes)} |->
      IF notes_incomplete /\ has_new_content
      THEN
        With([u \in {update_interaction(w, existing.EntryId, notes, linked.contact_ids,
                               linked.company_id, linked.deal_ids)} |->
          IF u.exc # NoExc THEN Caught(u.w, transcript, u.exc, obs)
          ELSE IF u.ret # None
          THEN Returned(u.w, [linked EXCEPT
                   !.status = "updated",
                   !.reason = "Notes backfilled (Fireflies summary now available)",
                   !.interaction_id = existing.EntryId], obs)
          ELSE Returned(u.w, [linked EXCEPT
                   !.status = "error",
                   !.error = "Failed to update interaction with backfilled notes",
                   !.interaction_id = existing.EntryId,
                   !.created_contacts = <<>>], obs)])
      ELSE Returned(w, [linked EXCEPT
               !.status = "skipped",
               !.reason = IF ~notes_incomplete THEN "Interaction already exists"
                          ELSE "Interaction exists, Fireflies summary still pending",
               !.interaction_id = existing.EntryId], obs)])

\* the interaction is created and the pass reports 'skipped'
CreateReportedSkipped(w, subject, notes, linked, transcript, obs) ==
    With([c \in {create_interaction(w, subject, notes, linked.contact_ids, linked.company_id,
                           linked.deal_ids)} |->
      IF c.exc # NoExc THEN Caught(c.w, transcript, c.exc, obs)
      ELSE Returned(c.w, [linked EXCEPT !.status = "skipped",
                                        !.reason = "Interaction already exists"], obs)])

\* the pass reports 'created' whatever create_interaction returned
CreateReportedAnyway(w, subject, notes, linked, transcript, obs) ==
    With([c \in {create_interaction(w, subject, notes, linked.contact_ids, linked.company_id,
                           linked.deal_ids)} |->
      IF c.exc # NoExc THEN Caught(c.w, transcript, c.exc, obs)
      ELSE Returned(c.w, [linked EXCEPT !.status = "created",
                                        !.interaction_id = IF c.ret = None THEN NoId
                                                           ELSE c.ret[1].EntryId], obs)])

\* no interaction with the subject was found: create it
Create(w, subject, notes, linked, transcript, obs) ==
    With([c \in {create_interaction(w, subject, notes, linked.contact_ids, linked.company_id,
                           linked.deal_ids)} |->
      IF c.exc # NoExc THEN Caught(c.w, transcript, c.exc, obs)
      ELSE IF c.ret # None
      THEN Returned(c.w, [linked EXCEPT !.status = "created",
                                        !.interaction_id = c.ret[1].EntryId], obs)
      ELSE Returned(c.w, [linked EXCEPT !.status = "error",
                                        !.error = "Failed to create interaction",
                                        !.contact_ids = <<>>, !.deal_ids = <<>>], obs)])

\* steps 10-11 of the pipeline: idempotency check, then update, skip or create
Reconcile(w, transcript, ids) ==
    With([content \in {format_content(transcript.summary)} |->
    With([interaction_subject \in {InteractionSubject(transcript.title)} |->
    With([interaction_notes \in {InteractionNotes(transcript, content)} |->
    With([linked \in {[SyncResult(transcript, "") EXCEPT
            !.company_id = ids.final_company_id, !.contact_ids = ids.contact_ids,
            !.deal_ids = ids.deal_ids, !.created_contacts = ids.created_contacts]} |->
    With([obs \in {Resolved(ids.company_id, ids.named, ids.contact_ids, ids.deal_ids,
                            content # <<>>)} |->
    With([found \in {search_interaction_by_subject(w, interaction_subject)} |->
      IF found.exc # NoExc THEN Caught(found.w, transcript, found.exc, obs)
      ELSE IF found.ret # None
      THEN Backfill(found.w, found.ret[1], interaction_notes, content # <<>>, linked,
                    transcript, [obs EXCEPT !.existing = found.ret])
      ELSE Create(found.w, interaction_subject, interaction_notes, linked, transcript, obs)])])])])])])

\* steps 7-9: company-based deal fallback, company precedence, abort condition
LinkOrAbort(w, transcript, company_id, contact_ids, created_contacts, named) ==
    With([byCompany \in {IF NeedsCompanyFallback(named.deal_ids, company_id)
        THEN search_deals_by_company(w, company_id)
        ELSE Ok(w, <<>>)} |->
      IF byCompany.exc # NoExc
      THEN Caught(byCompany.w, transcript, byCompany.exc,
                  [Obs(company_id, named.target_company_id, FALSE) EXCEPT
                      !.named_deal_ids = named.deal_ids])
      ELSE
        With([deal_ids \in {ScanDeals(byCompany.ret, [deal_ids |-> named.deal_ids,
                                      target_company_id |-> NoId]).deal_ids} |->
        With([final_company_id \in {FinalCompany(named.target_company_id, company_id)} |->
          IF NothingToLink(final_company_id, contact_ids, deal_ids)
          THEN Returned(byCompany.w,
                   [SyncResult(transcript, "skipped") EXCEPT
                       !.reason = "No company, contacts, or deals found to link interaction"],
                   Resolved(company_id, named, contact_ids, deal_ids, FALSE))
          ELSE Reconcile(byCompany.w, transcript,
                   [final_company_id |-> final_company_id,
                    contact_ids |-> contact_ids, deal_ids |-> deal_ids,
                    created_contacts |-> created_contacts,
                    company_id |-> company_id, named |-> named])])])])

\* steps 5-6: project name from the title, name-based deal search
ResolveDeals(w, transcript, company_id, contact_ids, created_contacts) ==
    With([project_name \in {extract_project_name(transcript.title)} |->
    With([byName \in {IF project_name # None THEN search_deals_by_name(w, project_name[1])
        ELSE Ok(w, <<>>)} |->
      IF byName.exc # NoExc
      THEN Caught(byName.w, transcript, byName.exc, Obs(company_id, NoId, FALSE))
      ELSE
        With([named \in {ScanDeals(byName.ret, [deal_ids |-> <<>>, target_company_id |-> NoId])} |->
          LinkOrAbort(byName.w, transcript, company_id, contact_ids, created_contacts, named)])])])

\* steps 3-4: contact search, creation of the missing contacts
ResolveContacts(w, transcript, unique_emails) ==
    With([found \in {search_contacts_by_email(w, unique_emails)} |->
      IF found.exc # NoExc
      THEN Caught(found.w, transcript, found.exc, Obs(NoId, NoId, FALSE))
      ELSE
        With([scan \in {ScanContacts(found.ret, [contact_ids |-> <<>>, found_emails |-> {},
                                     company_id |-> NoId])} |->
        With([missing_emails \in {Filter(unique_emails,
                   {e \in Range(unique_emails) : Lower(e) \notin scan.found_emails})} |->
        With([made \in {IF missing_emails # <<>> /\ scan.company_id # NoId
            THEN CreateMissing(found.w, missing_emails, scan.company_id,
                     [contact_ids |-> scan.contact_ids, created_contacts |-> <<>>])
            ELSE [w |-> found.w,
                  acc |-> [contact_ids |-> scan.contact_ids, created_contacts |-> <<>>],
                  exc |-> NoExc]} |->
          IF made.exc # NoExc
          THEN Caught(made.w, transcript, made.exc, Obs(scan.company_id, NoId, FALSE))
          ELSE ResolveDeals(made.w, transcript, scan.company_id,
                            made.acc.contact_ids, made.acc.created_contacts)])])])])

process_transcript(w, transcript) ==
    With([all_emails \in {Filter(transcript.participants,
               {p \in Range(transcript.participants) : p # <<>> /\ "@" \in Range(p)})} |->
    With([external_emails \in {Filter(all_emails, {e \in Range(all_emails) : ~is_internal_email(e)})} |->
      IF external_emails = <<>>
      THEN Returned(w, [SyncResult(transcript, "skipped") EXCEPT
                           !.reason = "No external participants"], Obs(NoId, NoId, FALSE))
      ELSE With([unique_emails \in {ListOfSet(w, external_emails)} |->
             ResolveContacts(w, transcript, unique_emails)])])])

----------------------------------------------------------------------------
(* FirefliesClient and the run controller *)

\* the transcript as the source returns it: the summary is null until produced
Fetched(t, produced) ==
    [id |-> t.id, title |-> t.title, date |-> t.date, duration |-> t.duration,
     participants |-> t.participants,
     summary |-> IF t.id \in produced THEN Some(FullSummary) ELSE None]

\* limit = limit or config.TRANSCRIPT_LIMIT
RequestedLimit(limit, configured) == IF limit = NoId THEN configured ELSE limit

\* answers of the transcript source to the list query, other than "ok": no
\* transcript, a non-OK status, a body with GraphQL errors, a transport
\* failure, and an HTTP 200 body without errors whose data.transcripts is null
FetchFaults == {"empty", "status", "errors", "transport", "null"}

\* fetch_transcripts(limit): only RequestException is caught; with a null
\* list, len(transcripts) raises TypeError
fetch_transcripts(limit, produced, answer) ==
    IF answer = "ok"
    THEN
      With([n \in {RequestedLimit(limit, TRANSCRIPT_LIMIT)} |->
        [ret |-> [i \in 1..(IF n < Len(Transcripts) THEN n ELSE Len(Transcripts)) |->
                     Fetched(Transcripts[i], produced)],
         exc |-> NoExc]])
    ELSE IF answer = "null"
    THEN [ret |-> <<>>, exc |-> Raise("TypeError", "object of type 'NoneType' has no len()")]
    ELSE [ret |-> <<>>, exc |-> NoExc]

\* answers of the transcript source to the query by id, other than "ok": a
\* non-OK status, a body with GraphQL errors, a transport failure, and a body
\* whose data.transcript is null
SingleFaults == {"status", "errors", "transport", "null"}

\* fetch_transcript_by_id(transcript_id): the source has no transcript for
\* an id it does not know
fetch_transcript_by_id(transcript_id, produced, answer) ==
    IF answer # "ok" \/ transcript_id \notin TranscriptIds THEN None
    ELSE Some(Fetched(Transcripts[CHOOSE i \in 1..Len(Transcripts) :
                                      Transcripts[i].id = transcript_id], produced))

\* the entry of one pass in the run's result list, with the part of the
\* request log the pass wrote
Entry(r, from) == [result |-> r.result, obs |-> r.obs, from |-> from + 1, to |-> Len(r.w.log)]

\* as ProcessEach, but the first pass that ends in an exception ends the loop
RECURSIVE ProcessUntilError(_, _, _)
ProcessUntilError(w, transcripts, done) ==
    IF transcripts = <<>> THEN [w |-> w, results |-> done]
    ELSE
      With([r \in {process_transcript(w, transcripts[1])} |->
      With([next \in {Append(done, Entry(r, Len(w.log)))} |->
        IF r.obs.raised # NoExc
        THEN [w |-> r.w, results |-> next]
        ELSE ProcessUntilError(r.w, Tail(transcripts), next)])])

\* as ProcessEach, but the passes are made from the last transcript to the first
RECURSIVE ProcessLastFirst(_, _, _)
ProcessLastFirst(w, transcripts, done) ==
    IF transcripts = <<>> THEN [w |-> w, results |-> done]
    ELSE
      With([r \in {process_transcript(w, transcripts[Len(transcripts)])} |->
      With([next \in {Append(done, Entry(r, Len(w.log)))} |->
        ProcessLastFirst(r.w, SubSeq(transcripts, 1, Len(transcripts) - 1), next)])])

\* for idx, transcript in enumerate(new_transcripts, 1): results.append(...)
RECURSIVE ProcessEach(_, _, _)
ProcessEach(w, transcripts, done) ==
    IF transcripts = <<>> THEN [w |-> w, results |-> done]
    ELSE
      With([r \in {process_transcript(w, transcripts[1])} |->
      With([next \in {Append(done, Entry(r, Len(w.log)))} |->
        ProcessEach(r.w, Tail(transcripts), next)])])

\* what the operation returned, or the exception it raised to its caller
Outcome(w, fetched, passed, results, success) ==
    [w |-> w, fetched |-> fetched, passed |-> passed, results |-> results,
     summary |-> [success |-> success, processed_count |-> Len(results), error |-> None,
                  stats |-> None],
     exc |-> NoExc]

\* sum(1 for r in results if r["status"] == status)
CountStatus(results, status) ==
    Cardinality({i \in 1..Len(results) : results[i].result.status = status})

\* sum(len(r.get("created_contacts", [])) for r in results)
RECURSIVE SumCreatedContacts(_)
SumCreatedContacts(results) ==
    IF results = <<>> THEN 0
    ELSE Len(Head(results).result.created_contacts) + SumCreatedContacts(Tail(results))

\* the results with status error are not counted
StatsWithoutErrors(results) ==
    [created_count |-> CountStatus(results, "created"),
     updated_count |-> CountStatus(results, "updated"),
     skipped_count |-> CountStatus(results, "skipped"),
     error_count |-> 0,
     contacts_created |-> SumCreatedContacts(results)]

\* the counts of the summary of sync_all
Stats(results) ==
    [created_count |-> CountStatus(results, "created"),
     updated_count |-> CountStatus(results, "updated"),
     skipped_count |-> CountStatus(results, "skipped"),
     error_count |-> CountStatus(results, "error"),
     contacts_created |-> SumCreatedContacts(results)]

\* every fetched transcript is processed, whatever the processed-id set holds
SyncAllUnfiltered(w, processed_ids, limit, produced, answer) ==
    With([w0 \in {clear_cache(w)} |->
    With([fetched \in {fetch_transcripts(limit, produced, answer)} |->
      IF fetched.exc # NoExc
      THEN [Outcome(w0, <<>>, <<>>, <<>>, FALSE) EXCEPT !.exc = fetched.exc]
      ELSE
        With([transcripts \in {fetched.ret} |->
          IF transcripts = <<>>
          THEN Outcome(w0, <<>>, <<>>, <<>>, TRUE)
          ELSE
            With([run \in {ProcessEach(w0, transcripts, <<>>)} |->
              [Outcome(run.w, transcripts, transcripts, run.results, TRUE) EXCEPT
                  !.summary.stats = Some(Stats(run.results))]])])])])

sync_all(w, processed_ids, limit, produced, answer) ==
    With([w0 \in {clear_cache(w)} |->
    With([fetched \in {fetch_transcripts(limit, produced, answer)} |->
      IF fetched.exc # NoExc
      THEN [Outcome(w0, <<>>, <<>>, <<>>, FALSE) EXCEPT !.exc = fetched.exc]
      ELSE
        With([transcripts \in {fetched.ret} |->
          IF transcripts = <<>>
          THEN Outcome(w0, <<>>, <<>>, <<>>, TRUE)
          ELSE
            With([new_transcripts \in {Filter(transcripts, {transcripts[i] : i \in
                          {j \in 1..Len(transcripts) : transcripts[j].id \notin processed_ids}})} |->
            With([run \in {ProcessEach(w0, new_transcripts, <<>>)} |->
              [Outcome(run.w, transcripts, new_transcripts, run.results, TRUE) EXCEPT
                  !.summary.stats = Some(Stats(run.results))]])])])])])

\* the pipeline's result is reported as a success whatever its status
SyncTranscriptAlwaysSucceeds(w, transcript_id, produced, answer) ==
    With([transcript \in {fetch_transcript_by_id(transcript_id, produced, answer)} |->
      IF transcript = None
      THEN [Outcome(w, <<>>, <<>>, <<>>, FALSE) EXCEPT
               !.summary.error = Some(<<"Transcript not found: ", transcript_id>>)]
      ELSE
        With([r \in {process_transcript(w, transcript[1])} |->
          Outcome(r.w, transcript, transcript, <<Entry(r, 0)>>, TRUE)])])

sync_transcript(w, transcript_id, produced, answer) ==
    With([transcript \in {fetch_transcript_by_id(transcript_id, produced, answer)} |->
      IF transcript = None
      THEN [Outcome(w, <<>>, <<>>, <<>>, FALSE) EXCEPT
               !.summary.error = Some(<<"Transcript not found: ", transcript_id>>)]
      ELSE
        With([r \in {process_transcript(w, transcript[1])} |->
          Outcome(r.w, transcript, transcript, <<Entry(r, 0)>>, r.result.status # "error")])])

----------------------------------------------------------------------------
(* The environment of one operation: the answers the CRM is about to give *)

TokStatus == [kind |-> "status", access_token |-> None, expires_in |-> None, took |-> 0]
TokTransport == [kind |-> "transport", access_token |-> None, expires_in |-> None, took |-> 0]
Tok5xx == [kind |-> "e5xx", access_token |-> None, expires_in |-> None, took |-> 0]
TokNoToken == [kind |-> "ok", access_token |-> None, expires_in |-> None, took |-> 0]
\* a token that is inside the refresh margin from the start
TokShort == [kind |-> "ok", access_token |-> Some("tokB"), expires_in |-> Some(60), took |-> 0]
\* a token whose exchange takes two seconds
TokSlow == [kind |-> "ok", access_token |-> Some("tokC"), expires_in |-> Some(600), took |-> 2]

\* n - 1 answers x followed by one answer y
RECURSIVE FaultAt(_, _, _)
FaultAt(n, x, y) == IF n = 1 THEN <<y>> ELSE <<x>> \o FaultAt(n - 1, x, y)

Env(tokResp, dataResp, order) == [tokResp |-> tokResp, dataResp |-> dataResp, order |-> order]

NoFault == Env(<<>>, <<>>, "asc")

IsCalm(env) == env.tokResp = <<>> /\ env.dataResp = <<>>

CalmEnvs == {Env(<<>>, <<>>, o) : o \in {"asc", "desc"}}

TokenFaultEnvs == {Env(<<t>>, <<>>, "asc") : t \in {TokStatus, TokTransport, TokNoToken}}

\* every exchange returns a short-lived token, until one exchange fails
ShortTokenEnvs ==
    {Env(FaultAt(n, TokShort, TokStatus), <<>>, "asc") : n \in 2..MaxFaultAt}

DataFaultEnvs ==
    {Env(<<>>, FaultAt(n, "ok", k), "asc") :
        n \in 1..MaxFaultAt, k \in {"e429", "status", "rejected"}}

RunEnvs == CalmEnvs \cup TokenFaultEnvs \cup ShortTokenEnvs \cup DataFaultEnvs

World(env) ==
    [tok |-> access_token, exp |-> token_expires_at, cache |-> cache, now |-> now,
     crm |-> crm, tokResp |-> env.tokResp, dataResp |-> env.dataResp,
     order |-> env.order, log |-> <<>>, run |-> runs + 1]

\* the client and the CRM after the operation
Commit(w) ==
    /\ access_token' = w.tok
    /\ token_expires_at' = w.exp
    /\ cache' = w.cache
    /\ now' = w.now
    /\ crm' = w.crm
    /\ runs' = runs + 1

\* what is recorded of an operation: its arguments, the client and the CRM
\* as they were before and after it, the requests it made, what it returned,
\* and the record of the operation before it
Observation(op, arg, env, w, prev) ==
    [op |-> op, arg |-> arg, calm |-> IsCalm(env), run |-> runs + 1, produced |-> ready,
     fetched |-> <<>>, passed |-> <<>>, results |-> <<>>,
     success |-> TRUE, processed_count |-> 0, log |-> w.log,
     call |-> Req(""), ret |-> <<>>, raised |-> NoExc, answers |-> env.dataResp,
     source |-> "ok", error |-> None, stats |-> None, processed_ids |-> {},
     before |-> [tok |-> access_token, exp |-> token_expires_at, now |-> now,
                 cache |-> cache, crm |-> crm],
     after |-> [tok |-> w.tok, exp |-> w.exp, now |-> w.now, cache |-> w.cache, crm |-> w.crm],
     prev |-> prev]

IsRun(o) == o.op \in {"sync_all", "sync_transcript"}

Previous == IF last.op = "init" THEN <<>> ELSE <<[last EXCEPT !.prev = <<>>]>>

Ids(transcripts) == [i \in 1..Len(transcripts) |-> transcripts[i].id]

RunObservation(op, arg, answer, env, r) ==
    [Observation(op, arg, env, r.w, Previous) EXCEPT
        !.fetched = Ids(r.fetched), !.passed = Ids(r.passed), !.results = r.results,
        !.success = r.summary.success, !.processed_count = r.summary.processed_count,
        !.source = answer, !.raised = r.exc, !.error = r.summary.error,
        !.stats = r.summary.stats]

CallObservation(call, env, r) ==
    [Observation(call.op, "", env, r.w, Previous) EXCEPT
        !.call = call, !.ret = r.ret, !.raised = r.exc]

----------------------------------------------------------------------------
(* Operations of the run controller *)

Init ==
    /\ access_token = None
    /\ token_expires_at = None
    /\ cache = EmptyCache
    /\ now = 0
    /\ crm = [contacts |-> InitialContacts, interactions |-> <<>>]
    /\ ready = {}
    /\ runs = 0
    /\ last = [Observation("init", "", NoFault, World(NoFault), <<>>) EXCEPT !.run = 0]

\* the arguments the triggers give to sync_all, and the ids given to sync_transcript
Batches == {[processed_ids |-> {}, limit |-> NoId], [processed_ids |-> {}, limit |-> 4],
            [processed_ids |-> {"t1"}, limit |-> 4]}
Limits == {NoId, 4}
SingleIds == {"t1", "t2", "t3", "t9"}

SyncAll(processed_ids, limit, answer, env, bound) ==
    /\ runs < bound
    /\ \E r \in {sync_all(World(env), processed_ids, limit, ready, answer)} :
           /\ Commit(r.w)
           /\ last' = [RunObservation("sync_all", "", answer, env, r) EXCEPT
                          !.processed_ids = processed_ids]
    /\ UNCHANGED ready

SyncTranscript(transcript_id, answer, env, bound) ==
    /\ runs < bound
    /\ \E r \in {sync_transcript(World(env), transcript_id, ready, answer)} :
           /\ Commit(r.w)
           /\ last' = RunObservation("sync_transcript", transcript_id, answer, env, r)
    /\ UNCHANGED ready

\* the transcript source finishes the summaries it was still producing
SummariesArrive ==
    /\ ready = {}
    /\ ready' = TranscriptIds
    /\ UNCHANGED <<access_token, token_expires_at, cache, now, crm, runs, last>>

\* runs against a CRM that may fail, rate-limit or reject
Next ==
    \/ \E b \in Batches, env \in RunEnvs : SyncAll(b.processed_ids, b.limit, "ok", env, MaxRuns)
    \/ \E l \in Limits, a \in FetchFaults : SyncAll({}, l, a, NoFault, MaxRuns)
    \/ \E t \in SingleIds, env \in RunEnvs : SyncTranscript(t, "ok", env, MaxRuns)
    \/ \E t \in SingleIds, a \in SingleFaults : SyncTranscript(t, a, NoFault, MaxRuns)
    \/ SummariesArrive

Spec == Init /\ [][Next]_vars

\* runs against a CRM that answers every request normally
NextCalm ==
    \/ \E b \in Batches, env \in CalmEnvs :
           SyncAll(b.processed_ids, b.limit, "ok", env, MaxCalmRuns)
    \/ \E t \in SingleIds, env \in CalmEnvs : SyncTranscript(t, "ok", env, MaxCalmRuns)
    \/ SummariesArrive

SpecCalm == Init /\ [][NextCalm]_vars

----------------------------------------------------------------------------
(* Operations of the entity client, called directly *)

HoneySubject == InteractionSubject(TitleHoney)
AcmeName == <<"A", "c", "m", "e">>

\* the calls made on the client: the operation and its arguments
Calls ==
    {[Req("search_contacts_by_email") EXCEPT !.emails = <<AmyEmail>>]}
    \cup {[Req("create_contact") EXCEPT !.emails = <<BobEmail>>, !.company = c] :
             c \in {CompanyA, NoId}}
    \cup {[Req("search_interaction_by_subject") EXCEPT !.subject = HoneySubject]}
    \cup {[Req("create_interaction") EXCEPT !.subject = HoneySubject, !.contacts = <<1>>,
                                            !.company = CompanyA]}
    \cup {[Req("search_deals_by_company") EXCEPT !.company = CompanyA]}
    \cup {[Req("search_deals_by_name") EXCEPT !.name = AcmeName]}

IsCall(o) == o.op \in {c.op : c \in Calls}

Perform(w, call) ==
    CASE call.op = "search_contacts_by_email" -> search_contacts_by_email(w, call.emails)
      [] call.op = "create_contact" -> create_contact(w, call.emails[1], call.company)
      [] call.op = "search_interaction_by_subject" ->
             search_interaction_by_subject(w, call.subject)
      [] call.op = "create_interaction" ->
             create_interaction(w, call.subject, call.notes, call.contacts, call.company,
                                call.deals)
      [] call.op = "search_deals_by_company" -> search_deals_by_company(w, call.company)
      [] call.op = "search_deals_by_name" -> search_deals_by_name(w, call.name)

\* the CRM answers 429 to n requests in a row
RECURSIVE Storm(_)
Storm(n) == IF n = 0 THEN <<>> ELSE <<"e429">> \o Storm(n - 1)

CallEnvs ==
    {NoFault, Env(<<>>, Storm(MaxReplay), "asc")}
    \cup {Env(<<t>>, <<>>, "asc") : t \in {TokStatus, TokTransport, TokNoToken}}
    \cup {Env(<<>>, <<k>>, "asc") : k \in {"e429h", "status", "transport", "e5xx", "rejected"}}
    \cup {Env(<<>>, <<"e429h", "status">>, "asc")}

ClientCall(call, env) ==
    /\ runs < MaxCalls
    /\ \E r \in {Perform(World(env), call)} :
           /\ Commit(r.w)
           /\ last' = CallObservation(call, env, r)
    /\ UNCHANGED ready

ClearCache ==
    /\ cache # EmptyCache
    /\ cache' = EmptyCache
    /\ UNCHANGED <<access_token, token_expires_at, now, crm, ready, runs, last>>

NextClient ==
    \/ \E call \in Calls, env \in CallEnvs : ClientCall(call, env)
    \/ ClearCache

SpecClient == Init /\ [][NextClient]_vars

----------------------------------------------------------------------------
(* Runs and direct create calls, against a CRM that may reject a creation *)

CreateCalls == {call \in Calls : call.op \in {"create_contact", "create_interaction"}}

\* the CRM rejects the n-th request when it is a creation
RejectEnvs ==
    {NoFault} \cup {Env(<<>>, FaultAt(n, "ok", "rejected"), "asc") : n \in 1..MaxFaultAt}

NextCreate ==
    \/ \E b \in Batches, env \in RejectEnvs :
           SyncAll(b.processed_ids, b.limit, "ok", env, MaxRuns)
    \/ \E t \in SingleIds, env \in RejectEnvs : SyncTranscript(t, "ok", env, MaxRuns)
    \/ \E call \in CreateCalls, env \in CallEnvs : ClientCall(call, env)

SpecCreate == Init /\ [][NextCreate]_vars

----------------------------------------------------------------------------
(* The token of the client, requested directly while time passes *)

TokenResponses ==
    {DefaultTokenResponse, TokShort, TokSlow, TokStatus, TokTransport, Tok5xx, TokNoToken}

TickSteps == {300, 3300}

GetAccessToken(response) ==
    /\ runs < MaxTokenCalls
    /\ \E r \in {_get_access_token(World(Env(<<response>>, <<>>, "asc")))} :
           /\ Commit(r.w)
           /\ last' = CallObservation(Req("_get_access_token"),
                                      Env(<<response>>, <<>>, "asc"), r)
    /\ UNCHANGED ready

Tick(d) ==
    /\ now + d <= MaxNow
    /\ now' = now + d
    /\ UNCHANGED <<access_token, token_expires_at, cache, crm, ready, runs, last>>

NextToken ==
    \/ \E response \in TokenResponses : GetAccessToken(response)
    \/ \E d \in TickSteps : Tick(d)

SpecToken == Init /\ [][NextToken]_vars

----------------------------------------------------------------------------
(* Runs against a calm CRM that holds other contacts at the start *)

BobId == 2

AmyRows == {[EntryId |-> 1, Email |-> AmyEmail, Company |-> c] : c \in {<<>>, <<CompanyA>>}}
BobRows == {[EntryId |-> BobId, Email |-> BobEmail, Company |-> c] : c \in {<<>>, <<CompanyB>>}}

\* the contacts the CRM holds, in the order its searches return them; a
\* contact may have no company
ContactStores ==
    {<<>>} \cup {<<a>> : a \in AmyRows} \cup {<<b>> : b \in BobRows}
    \cup {<<a, b>> : a \in AmyRows, b \in BobRows}
    \cup {<<b, a>> : a \in AmyRows, b \in BobRows}

InitContacts ==
    /\ access_token = None
    /\ token_expires_at = None
    /\ cache = EmptyCache
    /\ now = 0
    /\ \E store \in ContactStores : crm = [contacts |-> store, interactions |-> <<>>]
    /\ ready = {}
    /\ runs = 0
    /\ last = [Observation("init", "", NoFault, World(NoFault), <<>>) EXCEPT !.run = 0]

\* runs over the four most recent transcripts or fewer, and over all six
LongBatches ==
    Batches \cup {[processed_ids |-> ids, limit |-> Len(Transcripts)] : ids \in {{}, {"t2"}}}

NextContacts ==
    \/ \E b \in LongBatches, env \in CalmEnvs :
           SyncAll(b.processed_ids, b.limit, "ok", env, MaxRuns)
    \/ \E t \in SingleIds, env \in CalmEnvs : SyncTranscript(t, "ok", env, MaxRuns)

SpecContacts == InitContacts /\ [][NextContacts]_vars

----------------------------------------------------------------------------
(* The triggers of a run, and the limit each of them passes to the source *)

Min(a, b) == IF a < b THEN a ELSE b

\* run_sync(limit): limit = limit or config.TRANSCRIPT_LIMIT, then
\* sync_all(limit=limit) and fetch_transcripts(limit=limit)
run_sync(limit, configured) ==
    RequestedLimit(RequestedLimit(limit, configured), configured)

\* POST /api/sync (through run_sync_background)
trigger_sync(supplied, configured) ==
    run_sync(Min(RequestedLimit(supplied, configured), HARD_CEILING), configured)

\* POST /api/sync/blocking
trigger_sync_blocking(supplied, configured) ==
    run_sync(Min(RequestedLimit(supplied, configured), HARD_CEILING), configured)

\* POST /api/sync/backfill (through run_sync_background)
trigger_backfill(supplied, configured) ==
    run_sync(Min(RequestedLimit(supplied, BACKFILL_DEFAULT), HARD_CEILING), configured)

\* the scheduler's job: run_sync()
scheduled_sync(configured) == run_sync(NoId, configured)

\* values of TRANSCRIPT_LIMIT in the environment, and of the query parameter
\* `limit` (NoId: absent)
ConfiguredLimits == {TRANSCRIPT_LIMIT, 10, 100, 500, 501}
SuppliedLimits == {NoId, 1, 10, 499, 500, 501, 1000}

Triggered(path, supplied, configured, requested) ==
    [op |-> path, supplied |-> supplied, configured |-> configured, requested |-> requested]

InitLimit ==
    /\ access_token = None
    /\ token_expires_at = None
    /\ cache = EmptyCache
    /\ now = 0
    /\ crm = [contacts |-> InitialContacts, interactions |-> <<>>]
    /\ ready = {}
    /\ runs = 0
    /\ \E configured \in ConfiguredLimits : last = Triggered("configure", NoId, configured, 0)

TriggerSync(supplied) ==
    /\ last' = Triggered("trigger_sync", supplied, last.configured,
                         trigger_sync(supplied, last.configured))
    /\ UNCHANGED <<access_token, token_expires_at, cache, now, crm, ready, runs>>

TriggerSyncBlocking(supplied) ==
    /\ last' = Triggered("trigger_sync_blocking", supplied, last.configured,
                         trigger_sync_blocking(supplied, last.configured))
    /\ UNCHANGED <<access_token, token_expires_at, cache, now, crm, ready, runs>>

TriggerBackfill(supplied) ==
    /\ last' = Triggered("trigger_backfill", supplied, last.configured,
                         trigger_backfill(supplied, last.configured))
    /\ UNCHANGED <<access_token, token_expires_at, cache, now, crm, ready, runs>>

ScheduledSync ==
    /\ last' = Triggered("scheduled_sync", NoId, last.configured,
                         scheduled_sync(last.configured))
    /\ UNCHANGED <<access_token, token_expires_at, cache, now, crm, ready, runs>>

NextLimit ==
    \/ \E supplied \in SuppliedLimits : TriggerSync(supplied)
    \/ \E supplied \in SuppliedLimits : TriggerSyncBlocking(supplied)
    \/ \E supplied \in SuppliedLimits : TriggerBackfill(supplied)
    \/ ScheduledSync

SpecLimit == InitLimit /\ [][NextLimit]_vars

----------------------------------------------------------------------------
(* The application: triggers, the threads that run run_sync, and the flag
   sync_status["is_running"] *)

Triggers == 1..MaxTriggers

\* the handlers that answer 409 when sync_status["is_running"] is set
GuardedPaths == {"trigger_sync", "trigger_sync_blocking", "trigger_backfill"}

\* where a trigger is: not arrived, answered 409, run_sync called but the
\* flag not yet set, inside sync_all, run_sync returned
App(op, is_running, last_status, pc, path) ==
    [op |-> op, is_running |-> is_running, last_status |-> last_status, pc |-> pc,
     path |-> path]

InitApp ==
    /\ access_token = None
    /\ token_expires_at = None
    /\ cache = EmptyCache
    /\ now = 0
    /\ crm = [contacts |-> InitialContacts, interactions |-> <<>>]
    /\ ready = {}
    /\ runs = 0
    /\ last = App("startup", FALSE, "", [t \in Triggers |-> "none"], [t \in Triggers |-> ""])

AppUnchanged == UNCHANGED <<access_token, token_expires_at, cache, now, crm, ready, runs>>

\* trigger_sync, trigger_sync_blocking, trigger_backfill: 409 if the flag is
\* set, otherwise run_sync is called (in a new thread or in the request's)
GuardedTrigger(t, path) ==
    /\ last.pc[t] = "none"
    /\ last' = [last EXCEPT !.op = path, !.path[t] = path,
                            !.pc[t] = IF last.is_running THEN "rejected" ELSE "called"]
    /\ AppUnchanged

\* hubspot_webhook: starts the thread without reading the flag
HubspotWebhook(t) ==
    /\ last.pc[t] = "none"
    /\ last' = [last EXCEPT !.op = "hubspot_webhook", !.path[t] = "hubspot_webhook",
                            !.pc[t] = "called"]
    /\ AppUnchanged

\* scheduled_sync: calls run_sync() without reading the flag; the scheduler
\* does not start the job again while an instance of it is executing
ScheduledJob(t) ==
    /\ last.pc[t] = "none"
    /\ \A u \in Triggers :
           last.path[u] = "scheduled_sync" => last.pc[u] \notin {"called", "in_sync_all"}
    /\ last' = [last EXCEPT !.op = "scheduled_sync", !.path[t] = "scheduled_sync",
                            !.pc[t] = "called"]
    /\ AppUnchanged

\* run_sync: sync_status["is_running"] = True, then sync_all begins
RunSyncBegin(t) ==
    /\ last.pc[t] = "called"
    /\ last' = [last EXCEPT !.op = "run_sync", !.is_running = TRUE, !.pc[t] = "in_sync_all"]
    /\ AppUnchanged

\* run_sync: sync_all returned or raised; finally: is_running = False
RunSyncEnd(t, status) ==
    /\ last.pc[t] = "in_sync_all"
    /\ last' = [last EXCEPT !.op = "run_sync", !.is_running = FALSE,
                            !.last_status = status, !.pc[t] = "returned"]
    /\ AppUnchanged

NextApp ==
    \/ \E t \in Triggers, path \in GuardedPaths : GuardedTrigger(t, path)
    \/ \E t \in Triggers : HubspotWebhook(t)
    \/ \E t \in Triggers : ScheduledJob(t)
    \/ \E t \in Triggers : RunSyncBegin(t)
    \/ \E t \in Triggers, status \in {"success", "error"} : RunSyncEnd(t, status)

SpecApp == InitApp /\ [][NextApp]_vars

----------------------------------------------------------------------------
(* The text functions of SyncService, applied to titles and summaries *)

\* the parts the titles are made of
HeadRubicon == <<"P", "r", "o", "j", "e", "c", "t", " ", "R", "u", "b", "i", "c", "o", "n">>
HeadHoney == <<"H", "o", "n", "e", "y">>
HeadWeekly == <<"W", "e", "e", "k", "l", "y">>
HeadDme == <<"D", "M", "E", " ", "O", "p", "p", "o", "r", "t", "u", "n", "i", "t", "y">>
HeadReProject == <<"R", "e", " ", "p", "r", "o", "j", "e", "c", "t", " ", "j", "o", "y">>
HeadValesco == <<"V", "a", "l", "e", "s", "c", "o">>
HeadLower == <<"h", "o", "n", "e", "y">>
HeadThree == <<"B", "i", "g", " ", "B", "l", "u", "e", " ", "S", "k", "y">>

SepDash == <<" ", "-", " ">>
SepColon == <<":", " ">>
SepAngle == <<" ", "<", ">", " ">>
SepSpace == <<" ">>

TailSpp == <<"S", "P", "P", " ", "D", "i", "s", "c", "u", "s", "s", "i", "o", "n">>
TailEbitda == <<"P", "r", "o", " ", "F", "o", "r", "m", "a", " ", "E", "B", "I", "T", "D", "A">>
TailGca == <<"V", "a", "l", "e", "s", "c", "o", " ", "<", ">", " ", "G", "C", "A">>
TailSync == <<"I", "n", "t", "e", "r", "n", "a", "l", " ", "S", "y", "n", "c">>

TitleHeads == {HeadRubicon, HeadHoney, HeadWeekly, HeadDme, HeadReProject, HeadValesco, HeadLower, HeadThree}
TitleSeparators == {SepDash, SepColon, SepAngle, SepSpace}
TitleTails == {TailSpp, TailEbitda, TailGca, TailSync}

\* titles of calls: a head, a separator, a tail; among them the titles
\* 'Project Rubicon - SPP Discussion', 'Honey - Pro Forma EBITDA',
\* 'Weekly Internal Sync' and 'DME Opportunity: Valesco <> GCA'
Titles == {h \o s \o t : h \in TitleHeads, s \in TitleSeparators, t \in TitleTails}

TitleRubiconSpp == HeadRubicon \o SepDash \o TailSpp
TitleHoneyEbitda == HeadHoney \o SepDash \o TailEbitda
TitleWeeklyInternalSync == HeadWeekly \o SepSpace \o TailSync
TitleDmeOpportunity == HeadDme \o SepColon \o TailGca

\* summary objects of the source: texts that are empty or not, lists of
\* action items and of keywords with zero, one or two strings
Summaries ==
    [overview : {"", "ov"}, shorthand_bullet : {"", "sb"}, outline : {"", "ol"},
     action_items : {<<>>, <<"a1">>, <<"a1", "a2">>},
     keywords : {<<>>, <<"k1">>, <<"k1", "k2">>}]

Applied(op, title, summary, name, content) ==
    [op |-> op, title |-> title, summary |-> summary, name |-> name, content |-> content]

InitText ==
    /\ access_token = None
    /\ token_expires_at = None
    /\ cache = EmptyCache
    /\ now = 0
    /\ crm = [contacts |-> InitialContacts, interactions |-> <<>>]
    /\ ready = {}
    /\ runs = 0
    /\ last = Applied("start", <<>>, None, None, <<>>)

ExtractProjectName(title) ==
    /\ last' = Applied("extract_project_name", title, None, extract_project_name(title), <<>>)
    /\ UNCHANGED <<access_token, token_expires_at, cache, now, crm, ready, runs>>

FormatContent(summary) ==
    /\ last' = Applied("format_content", <<>>, summary, None, format_content(summary))
    /\ UNCHANGED <<access_token, token_expires_at, cache, now, crm, ready, runs>>

\* a participant whose name holds a marker text
MarkerName == <<"M", "y", " ", "N", "O", "T", "E", "S", ":">>

\* the transcripts whose notes are built: two of the source, and one with a
\* participant name that holds a marker
NotedTranscripts ==
    {Transcripts[1], Transcripts[4],
     [Transcripts[4] EXCEPT !.id = "t7", !.participants = <<JoeEmail, MarkerName>>]}

\* a pass finds the interaction that an earlier pass wrote:
\* notes_incomplete and has_new_content
update_needed(existing_notes, content) ==
    _has_incomplete_notes(existing_notes) /\ content # <<>>

Noted(transcript, summary, content, notes, later) ==
    [op |-> "interaction_notes", transcript |-> transcript, summary |-> summary,
     content |-> content, notes |-> notes,
     incomplete |-> _has_incomplete_notes(notes), later |-> later,
     update |-> update_needed(notes, later)]

\* the notes of a transcript are built from the summary it has at that time,
\* and a later pass, with the summary of that time, finds them in the CRM
BuildNotes(transcript, summary, later) ==
    /\ last' = With([content \in {format_content(summary)} |->
                    Noted(transcript, summary, content,
                          InteractionNotes(transcript, content), format_content(later))])
    /\ UNCHANGED <<access_token, token_expires_at, cache, now, crm, ready, runs>>

NextText ==
    \/ \E title \in Titles \cup {<<>>} : ExtractProjectName(title)
    \/ \E summary \in {None} \cup {Some(sm) : sm \in Summaries} : FormatContent(summary)
    \/ \E transcript \in NotedTranscripts,
          summary \in {None} \cup {Some(sm) : sm \in Summaries},
          later \in {None, Some(FullSummary)} :
            BuildNotes(transcript, summary, later)

SpecText == InitText /\ [][NextText]_vars

----------------------------------------------------------------------------
(* Reading the record of an operation *)

\* the log indexes of one pass
Span(entry) == entry.from..entry.to

\* the create-interaction requests with a subject among the log indexes S
Creates(log, S, subject) ==
    {i \in S : log[i].op = "interaction_create" /\ log[i].subject = subject}

\* the pass got as far as the idempotency check
Linked(entry) ==
    entry.result.reason \notin {"No external participants",
                                "No company, contacts, or deals found to link interaction"}

SectionTitles == {"SUMMARY:", "DETAILED NOTES:", "OUTLINE:", "ACTION ITEMS:"}
HasSection(notes) == \E i \in 1..Len(notes) : notes[i].s \in SectionTitles

TokenRequests(log) == {i \in 1..Len(log) : log[i].op = "token"}
FailedExchange(e) == e.op = "token" /\ (e.resp # "ok" \/ ~Truthy(e.granted))

\* the requests of an operation that re-issue it after a 429 answer
Replays(log) == {i \in 1..Len(log) : log[i].resp \in {"e429", "e429h"}}

----------------------------------------------------------------------------
(* Properties *)

\* C1 Idempotence of sync_transcript: two consecutive sync_transcript calls
\* for the same transcript, with an unchanged non-empty summary, on a subject
\* the CRM did not hold before, against a CRM that answers normally, return
\* 'created' and then 'skipped', and the two calls together send exactly one
\* create-interaction request with the subject.
C1_CreatedThenSkipped ==
    (/\ last.op = "sync_transcript"
     /\ last.prev # <<>>
     /\ last.prev[1].op = "sync_transcript"
     /\ last.prev[1].arg = last.arg
     /\ last.prev[1].results # <<>> /\ last.results # <<>>
     /\ last.arg \in last.produced /\ last.prev[1].produced = last.produced
     /\ Linked(last.prev[1].results[1])
     /\ \A k \in 1..Len(last.prev[1].before.crm.interactions) :
            last.prev[1].before.crm.interactions[k].Subject
                # InteractionSubject(last.results[1].result.transcript_title))
    => /\ last.prev[1].results[1].result.status = "created"
       /\ last.results[1].result.status = "skipped"
       /\ Cardinality(Creates(last.prev[1].log, 1..Len(last.prev[1].log),
                              InteractionSubject(last.results[1].result.transcript_title)))
          + Cardinality(Creates(last.log, 1..Len(last.log),
                                InteractionSubject(last.results[1].result.transcript_title)))
          = 1

\* C2 Subject as de-duplication key within a run: in one sync_all run, when
\* two passes have the same title and the earlier one ends 'created', the
\* later pass sends no create-interaction request with that subject.
C2_OneCreatePerSubject ==
    last.op = "sync_all" =>
        \A i, j \in 1..Len(last.results) :
            (/\ i < j
             /\ last.results[i].result.transcript_title = last.results[j].result.transcript_title
             /\ last.results[i].result.status = "created")
            => Creates(last.log, Span(last.results[j]),
                       InteractionSubject(last.results[j].result.transcript_title)) = {}

\* C3 Backfill: when the run before created the interaction of a transcript
\* whose summary did not exist yet, and this run processes the transcript
\* with the summary produced, this run's result for it is 'updated' and the
\* pass sent an update request whose notes hold a content section.
C3_BackfillUpdates ==
    (IsRun(last) /\ last.prev # <<>> /\ IsRun(last.prev[1])) =>
        \A i \in 1..Len(last.prev[1].results), j \in 1..Len(last.results) :
            (/\ last.prev[1].results[i].result.transcript_id = last.results[j].result.transcript_id
             /\ last.prev[1].results[i].result.status = "created"
             /\ last.results[j].result.transcript_id \notin last.prev[1].produced
             /\ last.results[j].result.transcript_id \in last.produced)
            => /\ last.results[j].result.status = "updated"
               /\ \E k \in Span(last.results[j]) :
                      last.log[k].op = "interaction_update" /\ HasSection(last.log[k].notes)

\* C4 Run-scoped cache: no search of a run (sync_all or sync_transcript) is
\* answered from a cache entry that an earlier run stored.
C4_NoCrossRunCacheHit ==
    IsRun(last) =>
        \A i \in 1..Len(last.log) :
            last.log[i].op = "cache_hit" => last.log[i].stored = last.run

\* C5 Cache correctness: within one run against a CRM that answers normally,
\* no two contact queries are sent for email lists that are equal after
\* lower-casing and sorting.
C5_OneQueryPerNormalizedEmails ==
    IsRun(last) =>
        \A i, j \in 1..Len(last.log) :
            (/\ i < j
             /\ last.log[i].op = "contacts_search"
             /\ last.log[j].op = "contacts_search")
            => ContactsKeyLowered(last.log[i].emails) # ContactsKeyLowered(last.log[j].emails)

\* C6 Bounded replay: the number of times an entity-client operation is
\* re-issued after 429 is capped: while the CRM answers 429 to MaxReplay
\* requests in a row, the operation stops re-issuing before the answers do.
C6_ReplayCapped ==
    IsCall(last) => Cardinality(Replays(last.log)) < MaxReplay

\* C7 Per-transcript error isolation: sync_all returns one result per
\* transcript that was not filtered out, in order, and a pass that raised an
\* exception has a result with status 'error' carrying the exception message.
C7_ErrorIsolation ==
    last.op = "sync_all" =>
        /\ Len(last.results) = Len(last.passed)
        /\ \A i \in 1..Len(last.results) :
               /\ last.results[i].result.transcript_id = last.passed[i]
               /\ last.results[i].obs.raised # NoExc =>
                      /\ last.results[i].result.status = "error"
                      /\ last.results[i].result.error = last.results[i].obs.raised[1].msg

\* C7 witness: a sync_all run in which a pass raised and a later pass created
C7_RaisedThenCreated ==
    /\ last.op = "sync_all"
    /\ \E i, j \in 1..Len(last.results) :
           /\ i < j
           /\ last.results[i].obs.raised # NoExc
           /\ last.results[j].result.status = "created"

\* C8 Authentication failure aborts the calling operation: when a token
\* exchange fails inside an entity-client operation, the operation raises to
\* its caller and leaves the cache as it was.
C8_AuthFailureRaises ==
    IsCall(last) =>
        ((\E i \in 1..Len(last.log) : FailedExchange(last.log[i]))
         => last.raised # NoExc /\ last.after.cache = last.before.cache)

\* C9 Token lifecycle: _get_access_token sends a token request exactly when
\* no token is cached or the cached token expires within five minutes;
\* otherwise it returns the cached token without a request; after a
\* successful exchange the expiry is the acquisition time plus expires_in
\* (3600 when the response has none).
C9_TokenLifecycle ==
    last.op = "_get_access_token" =>
        /\ TokenRequests(last.log) # {}
           <=> \/ ~Truthy(last.before.tok)
               \/ last.before.exp = None
               \/ last.before.exp[1] - last.before.now <= REFRESH_MARGIN
        /\ TokenRequests(last.log) = {} =>
               last.log = <<>> /\ last.raised = NoExc /\ last.ret = last.before.tok
        /\ \A i \in TokenRequests(last.log) :
               ~FailedExchange(last.log[i]) =>
                   /\ last.after.tok = last.log[i].granted
                   /\ last.ret = last.log[i].granted
                   /\ last.after.exp =
                          Some(last.after.now +
                               (IF last.log[i].expires_in = None THEN DEFAULT_EXPIRES_IN
                                ELSE last.log[i].expires_in[1]))

\* C9 witness: a cached token inside its last five minutes is exchanged
C9_RefreshedInsideMargin ==
    /\ last.op = "_get_access_token"
    /\ Truthy(last.before.tok)
    /\ last.before.exp # None
    /\ last.before.now < last.before.exp[1]
    /\ last.before.exp[1] - last.before.now <= REFRESH_MARGIN
    /\ \E i \in TokenRequests(last.log) : ~FailedExchange(last.log[i])
    /\ last.after.tok # last.before.tok
    /\ last.after.exp = Some(last.after.now + DEFAULT_EXPIRES_IN)

\* the passes of the last run in which the contact search resolved a company
\* and the name-matched deal carries another one
TwoCompanies ==
    {i \in 1..Len(last.results) :
        /\ last.results[i].obs.company_id # NoId
        /\ last.results[i].obs.target_company_id # NoId
        /\ last.results[i].obs.company_id # last.results[i].obs.target_company_id}

CompanyOnRequests(i) ==
    \A k \in Span(last.results[i]) :
        last.log[k].op \in {"interaction_create", "interaction_update"}
        => last.log[k].company = last.results[i].obs.target_company_id

\* C10 Company precedence (as claimed): when contacts resolve company A and
\* the name-matched deal carries company B # A, every interaction create or
\* update request of the pass carries B and the result's company_id is B.
C10_DealCompanyInEveryResult ==
    IsRun(last) =>
        \A i \in TwoCompanies :
            /\ CompanyOnRequests(i)
            /\ last.results[i].result.company_id = last.results[i].obs.target_company_id

\* C10 Company precedence (amended): as above, the result's company_id being
\* B unless an exception ended the pass.
C10_DealCompanyUnlessRaised ==
    IsRun(last) =>
        \A i \in TwoCompanies :
            /\ CompanyOnRequests(i)
            /\ last.results[i].obs.raised = NoExc =>
                   last.results[i].result.company_id = last.results[i].obs.target_company_id

\* C10 witness: an interaction created with the deal's company
C10_CreatedWithDealCompany ==
    /\ IsRun(last)
    /\ \E i \in TwoCompanies :
           /\ last.results[i].result.status = "created"
           /\ last.results[i].result.company_id = last.results[i].obs.target_company_id
           /\ \E k \in Span(last.results[i]) :
                  /\ last.log[k].op = "interaction_create"
                  /\ last.log[k].company = last.results[i].obs.target_company_id

\* the transcript of the source with an id
TranscriptOf(id) == Transcripts[CHOOSE i \in 1..Len(Transcripts) : Transcripts[i].id = id]

\* the participants that are email addresses outside the internal domains
ExternalParticipants(t) ==
    {p \in Range(t.participants) :
        "@" \in Range(p) /\ Lower(Split(p, "@")[2]) \notin INTERNAL_DOMAINS}

\* C11 Skip with no signal: a transcript without an external participant
\* email yields 'skipped' with reason 'No external participants', and its
\* pass makes no CRM call at all (no search, create, token request or delay).
C11_NoSignalSkipped ==
    IsRun(last) =>
        \A i \in 1..Len(last.results) :
            ExternalParticipants(TranscriptOf(last.results[i].result.transcript_id)) = {}
            => /\ last.results[i].result.status = "skipped"
               /\ last.results[i].result.reason = "No external participants"
               /\ Span(last.results[i]) = {}

\* C11 witness: a run skips a transcript of internal participants only while
\* the passes before it called the CRM
C11_InternalOnlySkipped ==
    /\ last.op = "sync_all"
    /\ \E i \in 1..Len(last.results) :
           /\ TranscriptOf(last.results[i].result.transcript_id).participants # <<>>
           /\ ExternalParticipants(TranscriptOf(last.results[i].result.transcript_id)) = {}
           /\ last.results[i].result.status = "skipped"
           /\ last.results[i].from > 1
           /\ last.results[i].to = Len(last.log)

\* the ids of rows
EntryIds(rows) == {rows[k].EntryId : k \in 1..Len(rows)}

\* the entries of a pass that belong to the company-based deal search
CompanySearches(entry) ==
    {k \in Span(entry) :
        \/ last.log[k].op = "deals_company"
        \/ last.log[k].op = "cache_hit" /\ last.log[k].map = "deals_company"}

\* C12 Deal resolution never merges the two sources: the deal ids of a
\* result are all from the name-based search or all from the company-based
\* search, and the company-based search is made only when the name-based step
\* gave no deal id and the contacts gave a company, for that company.
C12_DealSourcesNotMerged ==
    IsRun(last) =>
        \A i \in 1..Len(last.results) :
            /\ \/ Range(last.results[i].result.deal_ids)
                      \subseteq Range(last.results[i].obs.named_deal_ids)
               \/ Range(last.results[i].result.deal_ids)
                      \subseteq EntryIds(CrmDealsByCompany(last.results[i].obs.company_id))
            /\ \A k \in CompanySearches(last.results[i]) :
                   /\ last.results[i].obs.named_deal_ids = <<>>
                   /\ last.results[i].obs.company_id # NoId
                   /\ last.log[k].op = "deals_company" =>
                          last.log[k].company = last.results[i].obs.company_id

\* C12 witness: in one run, a pass with a company from contacts keeps the
\* name-matched deals without a company-based search, and another pass falls
\* back to the deals of the company
C12_NameThenFallback ==
    /\ last.op = "sync_all"
    /\ \E i, j \in 1..Len(last.results) :
           /\ last.results[i].obs.company_id # NoId
           /\ last.results[i].obs.named_deal_ids # <<>>
           /\ last.results[i].result.deal_ids = last.results[i].obs.named_deal_ids
           /\ CompanySearches(last.results[i]) = {}
           /\ last.results[j].obs.named_deal_ids = <<>>
           /\ last.results[j].result.deal_ids # <<>>
           /\ CompanySearches(last.results[j]) # {}

\* the entries of a pass that belong to the interaction search or create
InteractionCalls(entry) ==
    {k \in Span(entry) :
        \/ last.log[k].op \in {"interaction_search", "interaction_create", "interaction_update"}
        \/ last.log[k].op = "cache_hit" /\ last.log[k].map = "interaction"}

\* C13 Abort condition: a pass that comes out of contact and deal resolution
\* with no company, no contact id and no deal id returns 'skipped' with reason
\* 'No company, contacts, or deals found to link interaction' and makes no
\* interaction search or create; and every create-interaction request carries
\* a company id, a contact id or a deal id.
C13_AbortWithoutLinks ==
    IsRun(last) =>
        /\ \A i \in 1..Len(last.results) :
               (/\ last.results[i].obs.resolved
                /\ last.results[i].obs.company_id = NoId
                /\ last.results[i].obs.target_company_id = NoId
                /\ last.results[i].obs.contact_ids = <<>>
                /\ last.results[i].obs.deal_ids = <<>>)
               => /\ last.results[i].result.status = "skipped"
                  /\ last.results[i].result.reason
                         = "No company, contacts, or deals found to link interaction"
                  /\ InteractionCalls(last.results[i]) = {}
        /\ \A k \in 1..Len(last.log) :
               last.log[k].op = "interaction_create"
               => \/ last.log[k].company # NoId
                  \/ last.log[k].contacts # <<>>
                  \/ last.log[k].deals # <<>>

\* C13 witness: a pass searched contacts and deals, found nothing to link
\* and was skipped
C13_NothingFoundSkipped ==
    /\ IsRun(last)
    /\ \E i \in 1..Len(last.results) :
           /\ last.results[i].obs.resolved
           /\ last.results[i].obs.company_id = NoId
           /\ last.results[i].obs.contact_ids = <<>>
           /\ last.results[i].obs.deal_ids = <<>>
           /\ last.results[i].result.status = "skipped"
           /\ \E k \in Span(last.results[i]) : last.log[k].op = "contacts_search"
           /\ \E k \in Span(last.results[i]) : last.log[k].op = "deals_name"

\* C14 No contact is created without a company: every create-contact
\* request carries a company id; create_contact called without a company id
\* returns None without any request; and the create-contact requests of a
\* pass carry the company the contact search gave.
C14_ContactNeedsCompany ==
    /\ \A k \in 1..Len(last.log) :
           last.log[k].op = "contact_create" => last.log[k].company # NoId
    /\ (last.op = "create_contact" /\ last.call.company = NoId)
       => last.ret = None /\ last.raised = NoExc /\ last.log = <<>>
    /\ IsRun(last) =>
           \A i \in 1..Len(last.results) :
               \A k \in Span(last.results[i]) :
                   last.log[k].op = "contact_create"
                   => /\ last.results[i].obs.company_id # NoId
                      /\ last.log[k].company = last.results[i].obs.company_id

\* C14 witness: after a run that created a contact under the company of a
\* found contact, create_contact is called without a company
C14_MissingCompanyRefused ==
    /\ last.op = "create_contact"
    /\ last.call.company = NoId
    /\ last.ret = None
    /\ last.prev # <<>>
    /\ IsRun(last.prev[1])
    /\ \E k \in 1..Len(last.prev[1].log) :
           /\ last.prev[1].log[k].op = "contact_create"
           /\ last.prev[1].log[k].resp = "ok"
           /\ last.prev[1].log[k].company = CompanyA

SearchOps == {"search_contacts_by_email", "search_interaction_by_subject",
              "search_deals_by_company", "search_deals_by_name"}

\* the query of a search operation failed: its last request ended in a
\* non-OK status or in a transport exception
QueryFailed(o) ==
    /\ o.op \in SearchOps
    /\ o.log # <<>>
    /\ o.log[Len(o.log)].op \notin {"token", "delay", "cache_hit"}
    /\ o.log[Len(o.log)].resp \in {"status", "transport", "e5xx"}

\* C15 The cache holds only successful query results: a search whose query
\* failed leaves the cache as it was, and the same search made next, with the
\* cache not cleared in between, sends its query to the CRM again.
C15_FailedQueryNotCached ==
    /\ QueryFailed(last) => last.after.cache = last.before.cache
    /\ (/\ last.op \in SearchOps
        /\ last.prev # <<>>
        /\ QueryFailed(last.prev[1])
        /\ last.prev[1].call = last.call
        /\ last.before.cache = last.prev[1].after.cache)
       => \E k \in 1..Len(last.log) :
              last.log[k].op \notin {"token", "delay", "cache_hit"}

\* `any(marker in notes for marker in content_markers)`
NotesHaveMarker(notes) ==
    \E m \in 1..Len(content_markers), i \in 1..Len(notes) :
        TokenContains(notes[i], content_markers[m])

\* the interactions the CRM held under the subject of the first pass of the
\* last run when the run began
StoredBefore ==
    CrmInteractionsBySubject(last.before.crm,
                             InteractionSubject(last.results[1].result.transcript_title))

\* the first pass of the last run got to the idempotency check while the CRM
\* held an interaction with its subject
FirstPassFindsInteraction ==
    /\ IsRun(last)
    /\ last.results # <<>>
    /\ last.results[1].obs.resolved
    /\ Linked(last.results[1])
    /\ StoredBefore # <<>>

\* C16 Existing complete interaction: when an interaction with the subject
\* exists and its notes hold one of the content markers, the pass returns
\* 'skipped' with reason 'Interaction already exists' and sends no
\* interaction create or update request.
C16_CompleteInteractionSkipped ==
    (FirstPassFindsInteraction /\ NotesHaveMarker(StoredBefore[1].Notes))
    => /\ last.results[1].result.status = "skipped"
       /\ last.results[1].result.reason = "Interaction already exists"
       /\ \A k \in Span(last.results[1]) :
              last.log[k].op \notin {"interaction_create", "interaction_update"}

\* C17 Existing incomplete interaction with nothing to add: when an
\* interaction with the subject exists, its notes hold no content marker and
\* the pass has no formatted content, the pass returns 'skipped' with the
\* 'pending' reason and sends no interaction create or update request; and an
\* update request is sent only when the existing notes are incomplete and the
\* pass has content.
C17_PendingInteractionSkipped ==
    /\ (/\ FirstPassFindsInteraction
        /\ ~NotesHaveMarker(StoredBefore[1].Notes)
        /\ ~last.results[1].obs.has_content)
       => /\ last.results[1].result.status = "skipped"
          /\ last.results[1].result.reason
                 = "Interaction exists, Fireflies summary still pending"
          /\ \A k \in Span(last.results[1]) :
                 last.log[k].op \notin {"interaction_create", "interaction_update"}
    /\ IsRun(last) =>
           \A i \in 1..Len(last.results) :
               (\E k \in Span(last.results[i]) : last.log[k].op = "interaction_update")
               => /\ last.results[i].obs.existing # None
                  /\ ~NotesHaveMarker(last.results[i].obs.existing[1].Notes)
                  /\ last.results[i].obs.has_content

\* C18 Run failure containment: sync_all never raises to its caller; when
\* the transcript fetch fails or returns nothing it returns a summary with
\* processed_count 0 and no result, and the run has made no CRM request.
C18_RunFailureContained ==
    last.op = "sync_all" =>
        /\ last.raised = NoExc
        /\ last.source # "ok" =>
               /\ last.success
               /\ last.processed_count = 0
               /\ last.results = <<>>
               /\ last.log = <<>>

\* C19 Hard fetch ceiling: on every trigger path and for every supplied
\* limit (absent, small or above the ceiling), the number of transcripts
\* requested from the source is at most 500.
C19_FetchCeiling ==
    last.op \in {"trigger_sync", "trigger_sync_blocking", "trigger_backfill", "scheduled_sync"}
    => last.requested <= HARD_CEILING

CreateOps == {"contact_create", "interaction_create"}

\* the create requests of the entries ks that the CRM answered with HTTP
\* success and EntryId -1 or a non-empty Errors list
RejectedCreates(ks) ==
    {k \in ks : last.log[k].op \in CreateOps /\ last.log[k].resp = "rejected"}

\* the request of entry k is sent again later among the entries ks
ReissuedIn(ks, k) ==
    \E j \in ks :
        /\ j > k
        /\ last.log[j].op = last.log[k].op
        /\ last.log[j].emails = last.log[k].emails
        /\ last.log[j].subject = last.log[k].subject

\* C20 Entity-creation rejection is definitive: a create-contact or
\* create-interaction request answered with HTTP success and EntryId -1 or a
\* non-empty Errors list is sent once and not sent again by the operation,
\* the operation returns None and adds no row to the CRM; in a pass the
\* rejected contact is not reported as created, and a rejected interaction
\* gives the transcript the status 'error', never 'created'.
C20_RejectionDefinitive ==
    /\ last.op \in {"create_contact", "create_interaction"} =>
           \A k \in RejectedCreates(1..Len(last.log)) :
               /\ last.log[k].sends = 1
               /\ ~ReissuedIn(1..Len(last.log), k)
               /\ last.ret = None
               /\ last.raised = NoExc
               /\ last.after.crm = last.before.crm
    /\ IsRun(last) =>
           \A i \in 1..Len(last.results) :
               \A k \in RejectedCreates(Span(last.results[i])) :
                   /\ last.log[k].sends = 1
                   /\ ~ReissuedIn(Span(last.results[i]), k)
                   /\ last.log[k].op = "contact_create"
                      => last.log[k].emails[1] \notin Range(last.results[i].result.created_contacts)
                   /\ last.log[k].op = "interaction_create"
                      => /\ last.results[i].result.status = "error"
                         /\ last.results[i].result.error = "Failed to create interaction"
                         /\ last.results[i].result.interaction_id = NoId

\* C20 witness: a pass whose create-interaction request was rejected by the
\* CRM, after its searches were answered, ended with the status 'error'
C20_RejectedInteractionIsError ==
    /\ IsRun(last)
    /\ \E i \in 1..Len(last.results) :
           /\ last.results[i].result.status = "error"
           /\ \E k \in Span(last.results[i]) :
                  /\ last.log[k].op = "interaction_create"
                  /\ last.log[k].resp = "rejected"

\* C21 sync_transcript distinguishes 'not found' from a pipeline error: when
\* the transcript cannot be fetched (a failed query, or an id the source does
\* not know) it returns success false with the text 'Transcript not found',
\* no result record, and makes no CRM request; when the pipeline ran it
\* returns one result record for that transcript, and success is true exactly
\* when the status of the result is not 'error'.
C21_NotFoundIsNotError ==
    last.op = "sync_transcript" =>
        /\ last.raised = NoExc
        /\ (last.fetched = <<>>) <=> (last.source # "ok" \/ last.arg \notin TranscriptIds)
        /\ last.fetched = <<>> =>
               /\ ~last.success
               /\ last.error = Some(<<"Transcript not found: ", last.arg>>)
               /\ last.results = <<>>
               /\ last.log = <<>>
               /\ last.after.crm = last.before.crm
        /\ last.fetched # <<>> =>
               /\ Len(last.results) = 1
               /\ last.results[1].result.transcript_id = last.arg
               /\ last.error = None
               /\ last.success <=> last.results[1].result.status # "error"

\* C21 witness: the pipeline ran for a fetched transcript and ended with the
\* status 'error', so that success is false although a result is returned
C21_PipelineErrorHasResult ==
    /\ last.op = "sync_transcript"
    /\ last.fetched # <<>>
    /\ Len(last.results) = 1
    /\ last.results[1].result.status = "error"
    /\ ~last.success
    /\ last.error = None

\* the ids of a list of ids that are not in a set, in the order of the list
RECURSIVE IdsNotIn(_, _)
IdsNotIn(ids, skip) ==
    IF ids = <<>> THEN <<>>
    ELSE (IF ids[1] \in skip THEN <<>> ELSE <<ids[1]>>) \o IdsNotIn(Tail(ids), skip)

\* a logged request carries nothing but data of the transcript t: its
\* participants' addresses, the subject made of its title, a name taken
\* from its title
RequestOf(req, t) ==
    /\ req.op \in {"contacts_search", "contact_create"}
       => {Lower(req.emails[k]) : k \in 1..Len(req.emails)}
              \subseteq {Lower(p) : p \in Range(t.participants)}
    /\ req.op \in {"interaction_search", "interaction_create"}
       => req.subject = InteractionSubject(t.title)
    /\ req.op = "deals_name" => Contains(Lower(t.title), Lower(req.name))

\* C22 sync_all processes the transcripts one after the other in fetch
\* order: the i-th result belongs to the i-th fetched transcript that was not
\* filtered out, the requests of the passes follow each other in the log in
\* that order without overlap or gap, and every request of the i-th pass is a
\* request for the i-th transcript.
C22_SequentialInFetchOrder ==
    (last.op = "sync_all" /\ last.raised = NoExc) =>
        /\ \E n \in 0..Len(Transcripts) :
               last.fetched = [i \in 1..n |-> Transcripts[i].id]
        /\ last.passed = IdsNotIn(last.fetched, last.processed_ids)
        /\ Len(last.results) = Len(last.passed)
        /\ last.processed_count = Len(last.passed)
        /\ \A i \in 1..Len(last.results) :
               /\ last.results[i].result.transcript_id = last.passed[i]
               /\ last.results[i].from = (IF i = 1 THEN 1 ELSE last.results[i - 1].to + 1)
               /\ last.results[i].to >= last.results[i].from - 1
               /\ \A k \in Span(last.results[i]) :
                      RequestOf(last.log[k], TranscriptOf(last.passed[i]))
        /\ last.results # <<>> => last.results[Len(last.results)].to = Len(last.log)

\* C22 witness: a run over four fetched transcripts of which the first was
\* filtered out, in which the passes of the second and of the third
\* transcript both made CRM requests
C22_ThreePassesInOrder ==
    /\ last.op = "sync_all"
    /\ last.fetched = <<"t1", "t2", "t3", "t4">>
    /\ last.passed = <<"t2", "t3", "t4">>
    /\ Len(last.results) = 3
    /\ Span(last.results[1]) # {}
    /\ Span(last.results[2]) # {}
    /\ \E k \in Span(last.results[2]) : last.log[k].op = "interaction_create"

\* the data request of an operation of the client failed: the last request
\* of the operation ended in a non-OK status, in a 5xx answer after the
\* session's retries, or in a transport exception
RequestFailed(o) ==
    /\ IsCall(o)
    /\ o.log # <<>>
    /\ o.log[Len(o.log)].op \notin {"token", "delay", "cache_hit"}
    /\ o.log[Len(o.log)].resp \in {"status", "transport", "e5xx"}

\* C23 Transient failures never escape the entity client: when the data
\* request of an operation ends in a non-OK status or a transport exception,
\* a search returns the empty result, a creation returns None, nothing is
\* raised and the CRM holds what it held before.
C23_TransientFailureContained ==
    RequestFailed(last) =>
        /\ last.raised = NoExc
        /\ last.op \in {"search_contacts_by_email", "search_deals_by_company",
                        "search_deals_by_name"} => last.ret = <<>>
        /\ last.op \in {"search_interaction_by_subject", "create_contact",
                        "create_interaction"} => last.ret = None
        /\ last.after.crm = last.before.crm

\* C23 witness: create_interaction whose request ended in a transport
\* exception returned None, after a search whose request got a non-OK status
\* returned the empty list
C23_FailedWriteAfterFailedRead ==
    /\ last.op = "create_interaction"
    /\ RequestFailed(last)
    /\ last.log[Len(last.log)].resp = "transport"
    /\ last.ret = None
    /\ last.prev # <<>>
    /\ last.prev[1].op \in {"search_contacts_by_email", "search_deals_by_company",
                            "search_deals_by_name"}
    /\ RequestFailed(last.prev[1])
    /\ last.prev[1].log[Len(last.prev[1].log)].resp = "status"
    /\ last.prev[1].ret = <<>>

\* C24 The token exchange is not retried automatically: one call that needs
\* a token sends at most one token request to the CRM, and a failed exchange,
\* a 5xx answer of the token endpoint included, is not sent a second time in
\* that call.
C24_ExchangeNotRetried ==
    last.op = "_get_access_token" =>
        /\ Cardinality(TokenRequests(last.log)) <= 1
        /\ \A i \in TokenRequests(last.log) : last.log[i].sends = 1

\* C25 Inter-call delay precedes every CRM request: in the log of an
\* operation of the client, every request sent to the CRM (token requests
\* and replays after a 429 included) comes right after one inter-call delay,
\* and an operation answered from the cache logs neither a delay nor a
\* request.
C25_DelayBeforeEveryRequest ==
    IsCall(last) =>
        \A k \in 1..Len(last.log) :
            /\ last.log[k].op \notin {"delay", "cache_hit"}
               => k > 1 /\ last.log[k - 1].op = "delay"
            /\ last.log[k].op = "cache_hit" => Len(last.log) = 1

\* C26 Project-name extraction on the documented titles:
\* extract_project_name returns 'Project Rubicon' for 'Project Rubicon - SPP
\* Discussion', 'Honey' for 'Honey - Pro Forma EBITDA', no project name for
\* 'Weekly Internal Sync' and no project name for 'DME Opportunity: Valesco
\* <> GCA'.
C26_DocumentedTitles ==
    last.op = "extract_project_name" =>
        /\ last.title = TitleRubiconSpp => last.name = Some(HeadRubicon)
        /\ last.title = TitleHoneyEbitda => last.name = Some(HeadHoney)
        /\ last.title = TitleWeeklyInternalSync => last.name = None
        /\ last.title = TitleDmeOpportunity => last.name = None

SectionLabels == {"SUMMARY:", "KEY TOPICS:", "DETAILED NOTES:", "OUTLINE:", "NOTES:",
                  "ACTION ITEMS:"}

\* the section labels of a formatted content, in the order they appear
RECURSIVE LabelsOf(_)
LabelsOf(content) ==
    IF content = <<>> THEN <<>>
    ELSE (IF content[1].s \in SectionLabels THEN <<content[1].s>> ELSE <<>>)
         \o LabelsOf(Tail(content))

\* the labels of the non-empty sections of a summary, in the fixed order
NonEmptySections(sm) ==
    (IF sm.overview # "" THEN <<"SUMMARY:">> ELSE <<>>)
    \o (IF sm.keywords # <<>> THEN <<"KEY TOPICS:">> ELSE <<>>)
    \o (IF sm.shorthand_bullet # "" THEN <<"DETAILED NOTES:">> ELSE <<>>)
    \o (IF sm.outline = "" THEN <<>>
        ELSE IF sm.shorthand_bullet # "" THEN <<"OUTLINE:">> ELSE <<"NOTES:">>)
    \o (IF sm.action_items # <<>> THEN <<"ACTION ITEMS:">> ELSE <<>>)

\* the first piece of text of a section, after its label and a newline
SectionText(sm, label) ==
    CASE label = "SUMMARY:" -> Txt(sm.overview)
      [] label = "KEY TOPICS:" -> Txt(sm.keywords[1])
      [] label = "DETAILED NOTES:" -> Txt(sm.shorthand_bullet)
      [] label \in {"OUTLINE:", "NOTES:"} -> Txt(sm.outline)
      [] OTHER -> Txt("  (bullet) ")

\* C27 Content formatting: format_content emits exactly the non-empty
\* sections of the summary in the order SUMMARY, KEY TOPICS, DETAILED NOTES,
\* outline, ACTION ITEMS; the outline is labeled OUTLINE when there are
\* detailed notes and NOTES when there are none; each section is its label, a
\* newline and its text; the sections are separated by one blank line; and
\* an absent summary or one without a non-empty section gives the empty
\* string.
C27_SectionsInFixedOrder ==
    last.op = "format_content" =>
        /\ last.summary = None => last.content = <<>>
        /\ last.summary # None =>
               /\ LabelsOf(last.content) = NonEmptySections(last.summary[1])
               /\ last.content = <<>> <=> NonEmptySections(last.summary[1]) = <<>>
               /\ \A k \in 1..Len(last.content) :
                      /\ last.content[k].s \in SectionLabels =>
                             /\ k = 1 \/ last.content[k - 1] = NLNL
                             /\ k + 2 <= Len(last.content)
                             /\ last.content[k + 1] = NL
                             /\ last.content[k + 2] =
                                    SectionText(last.summary[1], last.content[k].s)
                      /\ last.content[k] = NLNL =>
                             /\ 1 < k /\ k < Len(last.content)
                             /\ last.content[k + 1].s \in SectionLabels
               /\ \A i \in 1..Len(last.summary[1].keywords) :
                      Txt(last.summary[1].keywords[i]) \in Range(last.content)
               /\ \A i \in 1..Len(last.summary[1].action_items) :
                      Txt(last.summary[1].action_items[i]) \in Range(last.content)

\* C27 witness: a summary with an outline, action items and keywords but
\* without overview and detailed notes is formatted as KEY TOPICS, NOTES,
\* ACTION ITEMS
C27_OutlineLabeledNotes ==
    /\ last.op = "format_content"
    /\ last.summary # None
    /\ last.summary[1].overview = ""
    /\ last.summary[1].shorthand_bullet = ""
    /\ LabelsOf(last.content) = <<"KEY TOPICS:", "NOTES:", "ACTION ITEMS:">>

\* the rows the contact search of the first pass of a run returned: the
\* CRM's answer to the logged query on the contacts it held when the run began
FirstPassContactRows ==
    IF \E k \in Span(last.results[1]) :
           last.log[k].op = "contacts_search" /\ last.log[k].resp = "ok"
    THEN CrmContactsByEmail(last.before.crm,
             last.log[CHOOSE k \in Span(last.results[1]) :
                          last.log[k].op = "contacts_search" /\ last.log[k].resp = "ok"].emails)
    ELSE <<>>

\* the company of the first of the rows that has one
RECURSIVE FirstCompany(_)
FirstCompany(rows) ==
    IF rows = <<>> THEN NoId
    ELSE IF rows[1].Company # <<>> THEN rows[1].Company[1]
    ELSE FirstCompany(Tail(rows))

ContactCreates(log) == {k \in 1..Len(log) : log[k].op = "contact_create"}

\* C29 At most one create-contact request per email address per run: within
\* one sync_all run, over all its passes, no two create-contact requests are
\* for the same address compared case-insensitively.
C29_OneCreatePerEmail ==
    last.op = "sync_all" =>
        \A j \in ContactCreates(last.log) : \A k \in ContactCreates(last.log) :
            Lower(last.log[j].emails[1]) = Lower(last.log[k].emails[1]) => j = k

WriteOps == {"contact_create", "interaction_create", "interaction_update"}

\* the passes of the last run that returned the status 'skipped'
SkippedPasses == {i \in 1..Len(last.results) : last.results[i].result.status = "skipped"}

\* C30 as stated: whenever a pass returns 'skipped', for any reason, no
\* write request (create contact, create interaction, update interaction)
\* was sent to the CRM during that pass.
C30_SkippedWritesNothing ==
    IsRun(last) =>
        \A i \in SkippedPasses :
            \A k \in Span(last.results[i]) : last.log[k].op \notin WriteOps

\* C30 amended: a pass that returns 'skipped' sent no create-interaction
\* and no update-interaction request; when the reason is 'No external
\* participants' or 'No company, contacts, or deals found to link
\* interaction' it sent no write request at all; a pass skipped because the
\* interaction exists may have sent create-contact requests before the
\* idempotency check, and the contacts so created are those its result
\* reports as created.
C30_SkippedWritesNoInteraction ==
    IsRun(last) =>
        \A i \in SkippedPasses :
            /\ \A k \in Span(last.results[i]) :
                   last.log[k].op \notin {"interaction_create", "interaction_update"}
            /\ ~Linked(last.results[i])
               => \A k \in Span(last.results[i]) : last.log[k].op \notin WriteOps
            /\ Range(last.results[i].result.created_contacts)
               = {last.log[k].emails[1] : k \in {j \in Span(last.results[i]) :
                      last.log[j].op = "contact_create" /\ last.log[j].resp = "ok"}}

\* C30 witness: a pass created a missing contact, then found the interaction
\* of its subject in the CRM and returned 'skipped'
C30_SkippedAfterContactCreated ==
    /\ IsRun(last)
    /\ \E i \in SkippedPasses :
           /\ Linked(last.results[i])
           /\ last.results[i].result.created_contacts # <<>>
           /\ \E k \in Span(last.results[i]) :
                  last.log[k].op = "contact_create" /\ last.log[k].resp = "ok"

\* the triggers whose run_sync is executing sync_all
InSyncAll == {t \in Triggers : last.pc[t] = "in_sync_all"}

\* C31 Runs are mutually exclusive: across all trigger paths at most one
\* sync_all run is in flight at any time, and a trigger that arrives while a
\* run is in flight starts no second run.
C31_RunsMutuallyExclusive == Cardinality(InSyncAll) <= 1

\* C32 The run flag is accurate: sync_status["is_running"] is true in every
\* state in which some run_sync is executing sync_all, and false once the
\* last executing run has ended, by a return or by an exception.
C32_RunFlagAccurate ==
    /\ InSyncAll # {} => last.is_running
    /\ (InSyncAll = {} /\ \E t \in Triggers : last.pc[t] = "returned") => ~last.is_running


\* `marker in participants_list` for some marker
ParticipantsHaveMarker(transcript) ==
    \E m \in 1..Len(content_markers), i \in 1..Len(transcript.participants) :
        Contains(transcript.participants[i], content_markers[m].c)

\* C33 Notes written by the engine are classified consistently: notes built
\* with non-empty formatted content are judged complete, so a later pass that
\* finds them does not update the interaction again, whatever content it has;
\* notes built with empty content, whose participants hold no marker text,
\* are judged incomplete.
C33_NotesClassifiedConsistently ==
    last.op = "interaction_notes" =>
        /\ last.content # <<>> => (~last.incomplete /\ ~last.update)
        /\ (last.content = <<>> /\ ~ParticipantsHaveMarker(last.transcript)) =>
               (last.incomplete /\ (last.update <=> last.later # <<>>))

\* notes with action items only are complete and a later pass with full
\* content leaves them alone
C33_ActionItemsOnlyIsComplete ==
    /\ last.op = "interaction_notes"
    /\ last.summary # None
    /\ NonEmptySections(last.summary[1]) = <<"ACTION ITEMS:">>
    /\ last.later = format_content(Some(FullSummary))
    /\ ~last.incomplete
    /\ ~last.update


\* the 429 answers at the head of the CRM's answers, and what follows them
RECURSIVE LeadingReplays(_)
LeadingReplays(answers) ==
    IF answers # <<>> /\ Head(answers) \in {"e429", "e429h"}
    THEN <<Head(answers)>> \o LeadingReplays(Tail(answers))
    ELSE <<>>

AfterReplays(answers) == SubSeq(answers, Len(LeadingReplays(answers)) + 1, Len(answers))

\* the seconds the 429 answers ask the client to wait
RECURSIVE Waited(_)
Waited(answers) ==
    IF answers = <<>> THEN 0
    ELSE (IF Head(answers) = "e429h" THEN RETRY_AFTER_HEADER ELSE DEFAULT_RETRY_AFTER)
         + Waited(Tail(answers))

\* the client and the CRM as they were before the last operation, after the
\* waits, with the CRM's answers that follow the 429 answers
ReplayWorld ==
    [tok |-> last.before.tok, exp |-> last.before.exp, cache |-> last.before.cache,
     now |-> Clock(last.before.now + Waited(LeadingReplays(last.answers))),
     crm |-> last.before.crm, tokResp |-> <<>>,
     dataResp |-> AfterReplays(last.answers), order |-> "asc", log |-> <<>>,
     run |-> last.run]

\* entry j is the request of entry k, sent again after a delay
ReplayOf(k, j) ==
    /\ j > k
    /\ [last.log[j] EXCEPT !.resp = "", !.sends = 0] = [last.log[k] EXCEPT !.resp = "", !.sends = 0]
    /\ \A i \in (k + 1)..(j - 1) : last.log[i].op \in {"delay", "token"}
    /\ \E i \in (k + 1)..(j - 1) : last.log[i].op = "delay"

\* C34 Replay on 429 is faithful: an operation of the entity client that
\* receives HTTP 429 waits Retry-After seconds (3 without the header), sends
\* the same request with the same arguments again and returns what the replay
\* returns; the 429 answer writes no cache entry and is not reported to the
\* caller as a failure.
C34_ReplayFaithful ==
    (IsCall(last) /\ Replays(last.log) # {}) =>
        /\ Cardinality(Replays(last.log)) = Len(LeadingReplays(last.answers))
        /\ \A k \in Replays(last.log) : \E j \in 1..Len(last.log) : ReplayOf(k, j)
        /\ last.raised = NoExc
        /\ With([r \in {Perform(ReplayWorld, last.call)} |->
               /\ last.ret = r.ret
               /\ last.raised = r.exc
               /\ last.after.now = r.w.now
               /\ last.after.cache = r.w.cache
               /\ last.after.crm = r.w.crm])

\* a contact search answered 429 with Retry-After and then with an error
\* status: the empty result of the replay is returned and cached
C34_ReplayThenStatus ==
    /\ IsCall(last)
    /\ last.call.op = "search_contacts_by_email"
    /\ last.answers = <<"e429h", "status">>
    /\ last.ret = <<>>
    /\ last.after.now = last.before.now + RETRY_AFTER_HEADER
    /\ Has(last.after.cache.contacts, ContactsKey(last.call.emails))


\* the created_contacts entries of the results, each named by its result and
\* its place in that result's list
CreatedContactEntries(results) ==
    UNION {{<<i, j>> : j \in 1..Len(results[i].result.created_contacts)} :
              i \in 1..Len(results)}

\* C35 Summary counts partition the results: in every summary that sync_all
\* returns after a non-empty fetch each result has the status created,
\* updated, skipped or error, the four counts add up to processed_count, which
\* is the length of the result list, and contacts_created is the number of
\* created_contacts entries of all results together.
C35_CountsPartitionResults ==
    (last.op = "sync_all" /\ last.raised = NoExc /\ last.fetched # <<>>) =>
        /\ last.stats # None
        /\ \A i \in 1..Len(last.results) :
               last.results[i].result.status \in {"created", "updated", "skipped", "error"}
        /\ last.stats[1].created_count + last.stats[1].updated_count
               + last.stats[1].skipped_count + last.stats[1].error_count = last.processed_count
        /\ last.processed_count = Len(last.results)
        /\ last.stats[1].contacts_created = Cardinality(CreatedContactEntries(last.results))

\* a run with a created, a skipped and an error result, and a created contact
C35_EveryCountPositive ==
    /\ last.op = "sync_all"
    /\ last.stats # None
    /\ last.stats[1].created_count > 0
    /\ last.stats[1].skipped_count > 0
    /\ last.stats[1].error_count > 0
    /\ last.stats[1].contacts_created > 0
    /\ last.stats[1].updated_count = 0


FailureAnswers == {"status", "transport", "e5xx", "rejected"}

\* the create-contact requests of a pass that the CRM did not fulfil
FailedContactCreates(entry) ==
    {k \in Span(entry) : last.log[k].op = "contact_create" /\ last.log[k].resp \in FailureAnswers}

\* the pass asked for its contacts, found no company with them, and has
\* external participants: none of the missing ones can be created
NoCompanyForCreation(entry) ==
    /\ entry.obs.company_id = NoId
    /\ ExternalParticipants(TranscriptOf(entry.result.transcript_id)) # {}
    /\ \E k \in Span(entry) :
           \/ last.log[k].op = "contacts_search" /\ last.log[k].resp # "transport"
           \/ last.log[k].op = "cache_hit" /\ last.log[k].map = "contacts"
    /\ \A k \in Span(entry) : last.log[k].op # "contact_create"

\* something other than the contacts of the pass went wrong in it
OtherFailure(entry) ==
    \E k \in Span(entry) :
        \/ FailedExchange(last.log[k])
        \/ /\ last.log[k].op \notin {"contacts_search", "contact_create", "token", "delay", "cache_hit"}
           /\ last.log[k].resp \in FailureAnswers

\* the pass found an interaction with incomplete notes and has content for it
UpdateAttempted(entry) ==
    /\ entry.obs.existing # None
    /\ entry.obs.has_content
    /\ _has_incomplete_notes(entry.obs.existing[1].Notes)

\* C36 Contact-creation problems never fail the transcript: when a missing
\* external email cannot be created, because no company id is known or
\* because create_contact returned failure, the pass goes on to deal
\* resolution and to the idempotency check, the email gives no contact id
\* and is not reported as created, and the pass does not end in 'error' on
\* that account: unless it goes on to update an interaction, it ends in
\* 'created' or 'skipped'.
C36_ContactCreationNeverFails ==
    IsRun(last) =>
        \A i \in 1..Len(last.results) :
            /\ \A k \in FailedContactCreates(last.results[i]) :
                   /\ last.log[k].emails[1] \notin Range(last.results[i].result.created_contacts)
                   /\ \A c \in Range(last.after.crm.contacts) :
                          c.EntryId \in Range(last.results[i].result.contact_ids)
                          => c.Email # last.log[k].emails[1]
            /\ ((FailedContactCreates(last.results[i]) # {} \/ NoCompanyForCreation(last.results[i]))
                /\ ~OtherFailure(last.results[i]))
               => /\ last.results[i].obs.resolved
                  /\ ~UpdateAttempted(last.results[i]) =>
                         /\ last.results[i].obs.raised = NoExc
                         /\ last.results[i].result.status \in {"created", "skipped"}
                  /\ Linked(last.results[i]) =>
                         \E j \in InteractionCalls(last.results[i]) :
                             \A k \in FailedContactCreates(last.results[i]) : j > k

\* a pass whose create-contact request was answered with an error status
\* created the interaction
C36_CreatedAfterFailedContact ==
    /\ IsRun(last)
    /\ \E i \in 1..Len(last.results) :
           /\ last.results[i].result.status = "created"
           /\ \E k \in FailedContactCreates(last.results[i]) : last.log[k].resp = "status"
           /\ last.results[i].result.created_contacts = <<>>


\* the entries of the result list for a transcript id
EntriesFor(id) == {i \in 1..Len(last.results) : last.results[i].result.transcript_id = id}

\* C37 Processed-set filter: when sync_all is given a set of processed ids,
\* no transcript with an id of the set is passed to the pipeline or has an
\* entry in the result list, every request of the run to the CRM is made by
\* the pass of a transcript outside the set, and every fetched transcript
\* with an id outside the set has exactly one entry.
C37_ProcessedSetFiltered ==
    (last.op = "sync_all" /\ last.raised = NoExc) =>
        /\ \A j \in 1..Len(last.passed) : last.passed[j] \notin last.processed_ids
        /\ \A j \in 1..Len(last.fetched) :
               Cardinality(EntriesFor(last.fetched[j]))
                   = (IF last.fetched[j] \in last.processed_ids THEN 0 ELSE 1)
        /\ \A i \in 1..Len(last.results) :
               last.results[i].result.transcript_id \in Range(last.fetched) \ last.processed_ids
        /\ \A k \in 1..Len(last.log) :
               \E i \in 1..Len(last.results) :
                   /\ k \in Span(last.results[i])
                   /\ last.results[i].result.transcript_id \notin last.processed_ids
                   /\ RequestOf(last.log[k], TranscriptOf(last.results[i].result.transcript_id))

\* a run over six fetched transcripts with the second one in the processed
\* set: five entries, and the pass of the sixth made CRM requests
C37_SecondOfSixFiltered ==
    /\ last.op = "sync_all"
    /\ last.processed_ids = {"t2"}
    /\ Len(last.fetched) = 6
    /\ last.fetched[2] = "t2"
    /\ Len(last.results) = 5
    /\ EntriesFor("t2") = {}
    /\ Span(last.results[5]) # {}


\* the tokens the token endpoint grants
GrantedTokens ==
    {r.access_token : r \in {x \in TokenResponses : x.kind = "ok" /\ Truthy(x.access_token)}}

\* an exchange of the operation o failed or carried no access_token
ExchangeFailedIn(o) ==
    /\ o.op = "_get_access_token"
    /\ \E i \in TokenRequests(o.log) : FailedExchange(o.log[i])

\* the client would answer the next call from what it holds
HeldTokenValid(c) ==
    /\ Truthy(c.tok)
    /\ c.exp # None
    /\ c.now < c.exp[1] - REFRESH_MARGIN

\* C38 Token state stays sound across failures: a call of _get_access_token
\* that returns normally returns a non-empty access_token that a successful
\* exchange granted; a call whose exchange failed or carried no access_token
\* raises and leaves nothing the next call would return, so the next call
\* sends a new token request and, when it returns, returns the token of that
\* request.
C38_TokenStateSound ==
    last.op = "_get_access_token" =>
        /\ last.raised = NoExc =>
               /\ Truthy(last.ret)
               /\ last.ret \in GrantedTokens
               /\ last.ret = last.after.tok
               /\ \A i \in TokenRequests(last.log) :
                      ~FailedExchange(last.log[i]) /\ last.ret = last.log[i].granted
        /\ ExchangeFailedIn(last) =>
               /\ last.raised # NoExc
               /\ ~HeldTokenValid(last.after)
        /\ (last.prev # <<>> /\ ExchangeFailedIn(last.prev[1])) =>
               /\ TokenRequests(last.log) # {}
               /\ last.raised = NoExc =>
                      \E i \in TokenRequests(last.log) : last.ret = last.log[i].granted

\* a token was granted, its exchange inside the refresh margin failed, and
\* the call after that was granted another token while the client still held
\* the first
C38_NewTokenAfterFailedRefresh ==
    /\ last.op = "_get_access_token"
    /\ last.prev # <<>>
    /\ ExchangeFailedIn(last.prev[1])
    /\ Truthy(last.before.tok)
    /\ last.raised = NoExc
    /\ last.ret # last.before.tok

====
